---- MODULE Spec2Model ----
(***************************************************************************)
(* Browser Threat Simulator: the background service worker's progression   *)
(* tracker, the credential detector, the ML model wrapper, the simulation  *)
(* engine, the red-team generator and the context analyzer.                *)
(*                                                                         *)
(* Scores that the code keeps as decimal fractions (0.25, 0.6, 0.75, ...)  *)
(* are kept here in hundredths (25, 60, 75, ...).  Text is kept as TLA+     *)
(* strings and inspected with Len / SubSeq / \o.                           *)
(***************************************************************************)
EXTENDS Integers, Sequences, FiniteSets, TLC

VARIABLES
    now,                \* Date.now()
    extensionState,     \* BackgroundService.extensionState
    userContext,        \* BackgroundService.userContext
    eventQueue,         \* storage['bts_event_queue'] (ApiClient retry queue)
    delivered,          \* events the dashboard has accepted
    loaded,             \* MLModel.loaded
    model,              \* MLModel.model ("null" or "net")
    tfDefined,          \* typeof tf !== 'undefined'
    trainingData,       \* MLModel.trainingData (event types)
    mlInput,            \* the MLInput of the pending / last predict call
    mlResult,           \* outcome of the last predict call
    lastSimulationTime, \* SimulationEngine.lastSimulationTime
    simulationCount,    \* SimulationEngine.simulationCount
    handlers,           \* in-flight handleContextUpdate invocations
    triggerLog,         \* shouldTriggerSimulation calls: time, state seen, result
    generated,          \* creation times of the simulations generated so far
    injected,           \* number of INJECT_SIMULATION messages sent to tabs
    detInput,           \* the DetectionInput handed to CredentialDetector.analyze
    detResult,          \* the MLPrediction it returned
    rtResults,          \* the last two generateRedTeamScenario calls
    ctxInput,           \* the context map handed to ContextAnalyzer.analyze
    ctxResult,          \* the ContextAnalysis it returned
    samples,            \* detection times handed to updateAverageDetectionTime
    lastEvent,          \* the tracker input handled last, with the stats before it
    planned,            \* what the last direct call of generate / generateSimulation returned
    typed,              \* per run: the text in the watched form's fields, keydown count
    outbox,             \* per run: messages the content scripts sent to the worker
    dashboard,          \* messages handled by the worker; per run: events posted
    injector            \* PhishingInjector: active simulations, page elements, timers

trackerVars == <<extensionState, eventQueue, delivered, trainingData, samples,
                 lastEvent>>
mlVars      == <<loaded, model, tfDefined, mlInput, mlResult>>
engineVars  == <<lastSimulationTime, simulationCount, handlers, triggerLog,
                 generated, injected, userContext>>
detVars     == <<detInput, detResult, typed, outbox, dashboard, injector>>
rtVars      == <<rtResults, planned>>
ctxVars     == <<ctxInput, ctxResult>>

vars == <<now, trackerVars, mlVars, engineVars, detVars, rtVars, ctxVars>>

Null == "null"

(***************************************************************************)
(* Bounds                                                                  *)
(***************************************************************************)
MaxEvents   == 5    \* tracker inputs handled in one run
MaxFields   == 2    \* form fields in one DetectionInput / MLInput
MaxHandlers == 2    \* concurrent handleContextUpdate invocations
MaxTicks    == 5    \* the clock advances at most this many minimum intervals
MaxSimulations == 6 \* simulations generated in one run
StartTime   == 1000000  \* Date.now() when the service worker starts
MaxContexts == 2    \* platforms present in one context map
MaxTyped    == 2    \* characters typed into one field
MaxMessages == 3    \* messages the content scripts send in one run
MaxInjections == 3  \* injectSimulation calls in one page
MaxTraining == 102  \* events held by the training buffer

(***************************************************************************)
(* Text helpers (String.prototype.includes / startsWith / endsWith /       *)
(* toLowerCase and the regular expressions the code uses)                  *)
(***************************************************************************)
Min(a, b) == IF a < b THEN a ELSE b
Max(a, b) == IF a > b THEN a ELSE b

CharAt(s, i) == SubSeq(s, i, i)

\* s.includes(sub) with the match starting at index >= from
IncludesFrom(s, sub, from) ==
    \E i \in from..(Len(s) - Len(sub) + 1) : SubSeq(s, i, i + Len(sub) - 1) = sub

Includes(s, sub) == IncludesFrom(s, sub, 1)

StartsWith(s, pre) == Len(s) >= Len(pre) /\ SubSeq(s, 1, Len(pre)) = pre

EndsWith(s, suf) ==
    Len(s) >= Len(suf) /\ SubSeq(s, Len(s) - Len(suf) + 1, Len(s)) = suf

\* first index >= from at which sub occurs in s, 0 when there is none
IndexOfFrom(s, sub, from) ==
    IF IncludesFrom(s, sub, from)
    THEN CHOOSE i \in from..(Len(s) - Len(sub) + 1) :
            /\ SubSeq(s, i, i + Len(sub) - 1) = sub
            /\ \A j \in from..(i - 1) : SubSeq(s, j, j + Len(sub) - 1) # sub
    ELSE 0

UpperChars == <<"A", "B", "C", "D", "E", "F", "G", "H", "I", "J", "K", "L", "M",
                "N", "O", "P", "Q", "R", "S", "T", "U", "V", "W", "X", "Y", "Z">>
LowerChars == <<"a", "b", "c", "d", "e", "f", "g", "h", "i", "j", "k", "l", "m",
                "n", "o", "p", "q", "r", "s", "t", "u", "v", "w", "x", "y", "z">>

UpperSet == {UpperChars[k] : k \in 1..26}

UpperToLower ==
    [c \in UpperSet |-> LowerChars[CHOOSE k \in 1..26 : UpperChars[k] = c]]

LowerChar(c) == IF c \in UpperSet THEN UpperToLower[c] ELSE c

RECURSIVE ToLowerCase(_)
ToLowerCase(s) ==
    IF Len(s) = 0 THEN ""
    ELSE LowerChar(CharAt(s, 1)) \o ToLowerCase(SubSeq(s, 2, Len(s)))

\* /a.*b/.test(l)
IncludesThen(l, a, b) ==
    \E i \in 1..(Len(l) - Len(a) + 1) :
        /\ SubSeq(l, i, i + Len(a) - 1) = a
        /\ IncludesFrom(l, b, i + Len(a))

IsDigit(c) == c \in {"0", "1", "2", "3", "4", "5", "6", "7", "8", "9"}

\* \d{1,3}(\.\d{1,3}){groups-1} matched at index i of s; the set of indexes
\* just past the possible matches
RECURSIVE DottedQuadEnds(_, _, _)
DottedQuadEnds(s, i, groups) ==
    LET runs == { n \in 1..3 : /\ i + n - 1 <= Len(s)
                               /\ \A k \in i..(i + n - 1) : IsDigit(CharAt(s, k)) }
    IN IF groups = 1
       THEN { i + n : n \in runs }
       ELSE UNION { IF i + n <= Len(s) /\ CharAt(s, i + n) = "."
                    THEN DottedQuadEnds(s, i + n + 1, groups - 1)
                    ELSE {} : n \in runs }

\* /\d{1,3}\.\d{1,3}\.\d{1,3}\.\d{1,3}/.test(s)
ContainsDottedQuad(s) == \E i \in 1..Len(s) : DottedQuadEnds(s, i, 4) # {}

\* /^\d{1,3}\.\d{1,3}\.\d{1,3}\.\d{1,3}$/.test(s)
IsDottedQuad(s) == (Len(s) + 1) \in DottedQuadEnds(s, 1, 4)

(***************************************************************************)
(* Shared types (EventType, Platform) and risk weights                     *)
(***************************************************************************)
SIMULATION_SHOWN    == "simulation_shown"
LINK_CLICKED        == "link_clicked"
FORM_FOCUSED        == "form_focused"
CREDENTIAL_ENTERED  == "credential_entered"
SIMULATION_DETECTED == "simulation_detected"
SIMULATION_IGNORED  == "simulation_ignored"
REPORTED_PHISHING   == "reported_phishing"

EventType == {SIMULATION_SHOWN, LINK_CLICKED, FORM_FOCUSED, CREDENTIAL_ENTERED,
              SIMULATION_DETECTED, SIMULATION_IGNORED, REPORTED_PHISHING}

GITHUB   == "github"
LINKEDIN == "linkedin"
GMAIL    == "gmail"
UNKNOWN  == "unknown"

Platform == <<GITHUB, LINKEDIN, GMAIL, UNKNOWN>>
PlatformSet == {Platform[i] : i \in 1..Len(Platform)}

RISK_WEIGHTS == [CREDENTIAL_ENTERED  |-> 50,
                 LINK_CLICKED        |-> 25,
                 SIMULATION_IGNORED  |-> 10,
                 SIMULATION_DETECTED |-> -20,
                 REPORTED_PHISHING   |-> -30]

(***************************************************************************)
(* Progression tracker: BackgroundService's stats handlers                 *)
(***************************************************************************)
RECURSIVE Gcd(_, _)
Gcd(a, b) == IF b = 0 THEN a ELSE Gcd(b, a % b)

\* a non-negative fraction in lowest terms
Frac(n, d) == LET g == Gcd(n, d) IN [num |-> n \div g, den |-> d \div g]

createDefaultStats ==
    [simulationsSeen       |-> 0,
     simulationsClicked    |-> 0,
     credentialsEntered    |-> 0,
     simulationsDetected   |-> 0,
     averageDetectionTime  |-> Frac(0, 1),
     difficultyProgression |-> [currentLevel         |-> "easy",
                                successRate          |-> 0,
                                consecutiveSuccesses |-> 0,
                                consecutiveFailures  |-> 0],
     riskScore             |-> 50,
     lastUpdated           |-> StartTime]

\* stats.averageDetectionTime = (current * (count - 1) + newTime) / count
updateAverageDetectionTime(stats, newTime) ==
    LET current == stats.averageDetectionTime
        count   == stats.simulationsDetected
    IN [stats EXCEPT !.averageDetectionTime =
            Frac(current.num * (count - 1) + newTime * current.den,
                 current.den * count)]

\* the switch of handleSimulationEvent with a report that resets the score
ApplyEventType_ReportResets(stats, type) ==
    CASE type = LINK_CLICKED ->
            [stats EXCEPT !.simulationsClicked = @ + 1,
                          !.riskScore = @ + 25]
      [] type = CREDENTIAL_ENTERED ->
            [stats EXCEPT !.credentialsEntered = @ + 1,
                          !.riskScore = @ + 50]
      [] type = SIMULATION_DETECTED ->
            [stats EXCEPT !.simulationsDetected = @ + 1,
                          !.riskScore = Max(0, @ - 20)]
      [] type = REPORTED_PHISHING ->
            [stats EXCEPT !.simulationsDetected = @ + 1,
                          !.riskScore = 0]
      [] OTHER -> stats

\* the switch of handleSimulationEvent with a report that takes a click back
ApplyEventType_ReportUndoesClick(stats, type) ==
    CASE type = LINK_CLICKED ->
            [stats EXCEPT !.simulationsClicked = @ + 1,
                          !.riskScore = @ + 25]
      [] type = CREDENTIAL_ENTERED ->
            [stats EXCEPT !.credentialsEntered = @ + 1,
                          !.riskScore = @ + 50]
      [] type = SIMULATION_DETECTED ->
            [stats EXCEPT !.simulationsDetected = @ + 1,
                          !.riskScore = Max(0, @ - 20)]
      [] type = REPORTED_PHISHING ->
            [stats EXCEPT !.simulationsDetected = @ + 1,
                          !.simulationsClicked = @ - 1,
                          !.riskScore = Max(0, @ - 30)]
      [] OTHER -> stats

\* the switch of handleSimulationEvent with a detection that extends the
\* success streak
ApplyEventType_DetectionCountsStreak(stats, type) ==
    CASE type = LINK_CLICKED ->
            [stats EXCEPT !.simulationsClicked = @ + 1,
                          !.riskScore = @ + 25]
      [] type = CREDENTIAL_ENTERED ->
            [stats EXCEPT !.credentialsEntered = @ + 1,
                          !.riskScore = @ + 50]
      [] type = SIMULATION_DETECTED ->
            [stats EXCEPT !.simulationsDetected = @ + 1,
                          !.difficultyProgression.consecutiveSuccesses = @ + 1,
                          !.riskScore = Max(0, @ - 20)]
      [] type = REPORTED_PHISHING ->
            [stats EXCEPT !.simulationsDetected = @ + 1,
                          !.riskScore = Max(0, @ - 30)]
      [] OTHER -> stats

\* the switch on event.type of handleSimulationEvent
ApplyEventType(stats, type) ==
    CASE type = LINK_CLICKED ->
            [stats EXCEPT !.simulationsClicked = @ + 1,
                          !.riskScore = @ + 25]
      [] type = CREDENTIAL_ENTERED ->
            [stats EXCEPT !.credentialsEntered = @ + 1,
                          !.riskScore = @ + 50]
      [] type = SIMULATION_DETECTED ->
            [stats EXCEPT !.simulationsDetected = @ + 1,
                          !.riskScore = Max(0, @ - 20)]
      [] type = REPORTED_PHISHING ->
            [stats EXCEPT !.simulationsDetected = @ + 1,
                          !.riskScore = Max(0, @ - 30)]
      [] OTHER -> stats

\* event.metadata?.shownAt is truthy (shownAt 0 stands for an absent value too)
HasShownAt(event) == event.metadata.shownAt # 0

\* the stats part of handleSimulationEvent
SimulationEventStats(stats, event, time) ==
    LET seen     == [stats EXCEPT !.simulationsSeen = @ + 1]
        switched == ApplyEventType(seen, event.type)
        timed    == IF event.type = SIMULATION_DETECTED /\ HasShownAt(event)
                    THEN updateAverageDetectionTime(
                            switched, event.timestamp - event.metadata.shownAt)
                    ELSE switched
    IN [timed EXCEPT !.lastUpdated = time]

\* ApiClient.request catches every failure of fetch and returns null, so it
\* never throws to its caller
RequestThrows(netOk) == FALSE

\* ApiClient.sendEvent and queueEvent: the retry queue after the call
sendEvent(queue, event, netOk) ==
    IF RequestThrows(netOk)
    THEN [ok |-> FALSE, queue |-> Append(queue, event.type)]
    ELSE [ok |-> TRUE, queue |-> queue]

\* MLModel.addTrainingExample followed by retrainModel: the buffer afterwards
addTrainingExample(data, type) ==
    LET pushed == Append(data, type)
    IN IF Len(pushed) >= 100 /\ model # Null /\ tfDefined
       THEN <<>>
       ELSE pushed

\* MLModel.addTrainingExample called for one more event
AddTrainingExample(type) ==
    /\ Len(trainingData) < MaxTraining
    /\ trainingData' = addTrainingExample(trainingData, type)
    /\ UNCHANGED <<now, extensionState, eventQueue, delivered, samples,
                   lastEvent, mlVars, engineVars, detVars, rtVars, ctxVars>>

\* no tracker input handled yet
NoEvent ==
    [handler |-> "none", type |-> "", before |-> createDefaultStats,
     netOk |-> TRUE, sendReturned |-> TRUE]

TrackerInputs ==
    extensionState.userStats.simulationsSeen
      + extensionState.userStats.credentialsEntered
      + extensionState.userStats.simulationsDetected

\* the event kinds a content script sends: the EventType values and the
\* key spelling the injector uses
TrackerEventTypes ==
    {SIMULATION_SHOWN, LINK_CLICKED, CREDENTIAL_ENTERED, SIMULATION_DETECTED,
     REPORTED_PHISHING, "SIMULATION_DETECTED"}

TrackerEvents ==
    [type : TrackerEventTypes, timestamp : {30000},
     metadata : [shownAt : {0, 10000, 20000}]]

\* what handleSimulationEvent does to the worker's state
SimulationEventEffects(event, netOk) ==
    /\ extensionState' =
          [extensionState EXCEPT
              !.userStats = SimulationEventStats(@, event, now)]
    /\ eventQueue' = sendEvent(eventQueue, event, netOk).queue
    /\ delivered' = IF netOk THEN delivered + 1 ELSE delivered
    /\ trainingData' = addTrainingExample(trainingData, event.type)
    /\ samples' = IF event.type = SIMULATION_DETECTED /\ HasShownAt(event)
                  THEN Append(samples, event.timestamp - event.metadata.shownAt)
                  ELSE samples
    /\ lastEvent' = [handler |-> "handleSimulationEvent", type |-> event.type,
                     before |-> extensionState.userStats, netOk |-> netOk,
                     sendReturned |-> sendEvent(eventQueue, event, netOk).ok]

handleSimulationEvent(event, netOk) ==
    /\ TrackerInputs < MaxEvents
    /\ SimulationEventEffects(event, netOk)
    /\ UNCHANGED <<now, mlVars, engineVars, detVars, rtVars, ctxVars>>

\* what handleCredentialEntry does to the worker's state
CredentialEntryEffects(netOk) ==
    /\ extensionState' =
          [extensionState EXCEPT
              !.userStats.credentialsEntered = @ + 1,
              !.userStats.riskScore = @ + 50]
    /\ eventQueue' =
          sendEvent(eventQueue, [type |-> CREDENTIAL_ENTERED], netOk).queue
    /\ delivered' = IF netOk THEN delivered + 1 ELSE delivered
    /\ lastEvent' = [handler |-> "handleCredentialEntry",
                     type |-> CREDENTIAL_ENTERED,
                     before |-> extensionState.userStats, netOk |-> netOk,
                     sendReturned |->
                        sendEvent(eventQueue, [type |-> CREDENTIAL_ENTERED], netOk).ok]
    /\ UNCHANGED <<trainingData, samples>>

handleCredentialEntry(netOk) ==
    /\ TrackerInputs < MaxEvents
    /\ CredentialEntryEffects(netOk)
    /\ UNCHANGED <<now, mlVars, engineVars, detVars, rtVars, ctxVars>>

handleSuspiciousSiteReport(netOk) ==
    /\ TrackerInputs < MaxEvents
    /\ extensionState' =
          [extensionState EXCEPT
              !.userStats.simulationsDetected = @ + 1,
              !.userStats.riskScore = Max(0, @ - 30)]
    /\ eventQueue' =
          sendEvent(eventQueue, [type |-> REPORTED_PHISHING], netOk).queue
    /\ delivered' = IF netOk THEN delivered + 1 ELSE delivered
    /\ lastEvent' = [handler |-> "handleSuspiciousSiteReport",
                     type |-> REPORTED_PHISHING,
                     before |-> extensionState.userStats, netOk |-> netOk,
                     sendReturned |->
                        sendEvent(eventQueue, [type |-> REPORTED_PHISHING], netOk).ok]
    /\ UNCHANGED <<now, trainingData, samples, mlVars, engineVars, detVars, rtVars,
                   ctxVars>>

(***************************************************************************)
(* Content scripts: the simulation injector and the credential detector,   *)
(* run twice side by side on texts of the same length                      *)
(***************************************************************************)
Runs == {1, 2}

\* the characters a user types
Alphabet == {"a", "b"}

\* window.location.href and form.action of the watched page
PageUrl    == "http://evil.test/secure-login"
FormAction == "http://evil.test/collect"

\* the watched form is in suspiciousForms
FormIsSuspicious == TRUE

\* extractFieldInfo for the two inputs of the watched form
WatchedFields ==
    <<[type |-> "email", name |-> "email", isPassword |-> FALSE,
       isHidden |-> FALSE],
      [type |-> "password", name |-> "password", isPassword |-> TRUE,
       isHidden |-> FALSE]>>

\* the watched form before any input: both fields empty, no key pressed, the
\* risk alert (window.__btsAlertShown) not shown yet
NothingTyped ==
    [username |-> "", password |-> "", keystrokes |-> 0, alertShown |-> FALSE]

InitContentScripts ==
    /\ typed = [r \in Runs |-> NothingTyped]
    /\ outbox = [r \in Runs |-> <<>>]
    /\ dashboard = [handled |-> 0, events |-> [r \in Runs |-> <<>>]]

\* the metadata of the injector's CREDENTIAL_ENTERED report, with the typed
\* user name in it
CredentialMetadata_WithText(username, password) ==
    [hasUsername    |-> username # "",
     hasPassword    |-> password # "",
     usernameLength |-> Len(username),
     passwordLength |-> Len(password),
     username       |-> username]

\* the metadata object built by checkCredentialEntry
CredentialMetadata(username, password) ==
    [hasUsername    |-> username # "",
     hasPassword    |-> password # "",
     usernameLength |-> Len(username),
     passwordLength |-> Len(password)]

\* PhishingInjector.reportEvent
reportEvent(type, simulationId, metadata, time) ==
    [type  |-> "SIMULATION_EVENT",
     event |-> [type |-> type, simulationId |-> simulationId, url |-> PageUrl,
                timestamp |-> time, metadata |-> metadata]]

\* PhishingInjector.checkCredentialEntry: the messages it sends
checkCredentialEntry(fields, time) ==
    IF fields.username # "" /\ fields.password # ""
    THEN <<reportEvent("CREDENTIAL_ENTERED", "sim-1",
                       CredentialMetadata(fields.username, fields.password),
                       time)>>
    ELSE <<>>

\* CredentialDetector.checkForCredentialEntry with reportCredentialEntry
checkForCredentialEntry(fields, time) ==
    LET hasPassword == Len(fields.password) > 0
        hasUsername == Len(fields.username) > 0
    IN [hasCredentials |-> hasPassword \/ hasUsername,
        messages |->
           IF hasPassword
           THEN <<[type |-> "CREDENTIAL_ENTRY_DETECTED",
                   data |-> [hasUsername  |-> hasUsername,
                             hasPassword  |-> hasPassword,
                             url          |-> PageUrl,
                             formAction   |-> FormAction,
                             isSuspicious |-> FormIsSuspicious,
                             timestamp    |-> time,
                             userBehavior |->
                                [keystrokes |-> fields.keystrokes]]]>>
           ELSE <<>>]

\* CredentialDetector.handleFormSubmit with alertCredentialRisk(), which
\* alerts once per page: the messages sent and the alert flag afterwards
handleFormSubmit(fields, time) ==
    LET checked == checkForCredentialEntry(fields, time)
        alerts  == checked.hasCredentials /\ FormIsSuspicious
    IN [messages |->
           checked.messages
              \o (IF alerts /\ ~fields.alertShown
                  THEN <<[type |-> "CREDENTIAL_RISK_ALERT_SHOWN",
                          url |-> PageUrl, confidence |-> 50]>>
                  ELSE <<>>),
        alertShown |-> fields.alertShown \/ alerts]

\* CredentialDetector.predictCredentialEntry with the model loaded
predictCredentialEntry(fields) ==
    <<[type  |-> "ML_PREDICT",
       input |-> [formFields   |-> WatchedFields,
                  url          |-> PageUrl,
                  pageContext  |-> "Sign in Please verify your account",
                  userBehavior |-> [keystrokes |-> fields.keystrokes]]]>>

\* the event the worker posts to the dashboard for one message, if any
ForwardedEvents(message, time) ==
    CASE message.type = "SIMULATION_EVENT" -> <<message.event>>
      [] message.type = "CREDENTIAL_ENTRY_DETECTED" ->
            <<[simulationId |-> "unknown", type |-> CREDENTIAL_ENTERED,
               timestamp |-> time, url |-> message.data.url,
               metadata |-> [hasUsername     |-> message.data.hasUsername,
                             hasPassword     |-> message.data.hasPassword,
                             isSuspicious    |-> message.data.isSuspicious,
                             detectionMethod |-> "heuristic"]]>>
      [] message.type = "CREDENTIAL_RISK_ALERT_SHOWN" ->
            <<[simulationId |-> "risk-alert", type |-> SIMULATION_DETECTED,
               timestamp |-> time, url |-> message.url,
               metadata |-> [alertType  |-> "credential_risk",
                             confidence |-> message.confidence]]>>
      [] OTHER -> <<>>

Send(messages) ==
    outbox' = [r \in Runs |-> outbox[r] \o messages[r]]

\* a key press in a field of the watched form, a different character in each
\* run: the detector's keydown listener counts it and the injector's input
\* listener runs checkCredentialEntry
TypeCharacter(field, chars) ==
    /\ \A r \in Runs : Len(typed[r][field]) < MaxTyped
    /\ \A r \in Runs : Len(outbox[r]) < MaxMessages
    /\ typed' = [r \in Runs |->
                    [typed[r] EXCEPT ![field] = @ \o chars[r],
                                     !.keystrokes = @ + 1]]
    /\ Send([r \in Runs |-> checkCredentialEntry(typed'[r], now)])
    /\ UNCHANGED <<now, detInput, detResult, dashboard, injector, trackerVars, mlVars,
                   engineVars, rtVars, ctxVars>>

\* focus moves into a field of the watched form
FocusField ==
    /\ \A r \in Runs : Len(outbox[r]) < MaxMessages
    /\ Send([r \in Runs |-> predictCredentialEntry(typed[r])])
    /\ UNCHANGED <<now, detInput, detResult, typed, dashboard, injector,
                   trackerVars, mlVars, engineVars, rtVars, ctxVars>>

\* the watched form is submitted
SubmitForm ==
    /\ \A r \in Runs : Len(outbox[r]) + 1 < MaxMessages
    /\ Send([r \in Runs |-> handleFormSubmit(typed[r], now).messages])
    /\ typed' = [r \in Runs |->
                    [typed[r] EXCEPT !.alertShown =
                        handleFormSubmit(typed[r], now).alertShown]]
    /\ UNCHANGED <<now, detInput, detResult, dashboard, injector, trackerVars,
                   mlVars, engineVars, rtVars, ctxVars>>

\* handleMessage in the worker for the oldest message not handled yet; the
\* worker's own state follows the first run
WorkerHandle ==
    /\ \A r \in Runs : dashboard.handled < Len(outbox[r])
    /\ LET k == dashboard.handled + 1
           message == outbox[1][k]
       IN /\ dashboard' =
                [handled |-> k,
                 events  |-> [r \in Runs |->
                                 dashboard.events[r]
                                    \o ForwardedEvents(outbox[r][k], now)]]
          /\ CASE message.type = "SIMULATION_EVENT" ->
                     SimulationEventEffects(message.event, TRUE)
               [] message.type = "CREDENTIAL_ENTRY_DETECTED" ->
                     CredentialEntryEffects(TRUE)
               [] message.type = "CREDENTIAL_RISK_ALERT_SHOWN" ->
                     /\ delivered' = delivered + 1
                     /\ UNCHANGED <<extensionState, eventQueue, trainingData,
                                    samples, lastEvent>>
               [] OTHER -> UNCHANGED trackerVars
    /\ UNCHANGED <<now, detInput, detResult, typed, outbox, injector, mlVars,
                   engineVars,
                   rtVars, ctxVars>>

(***************************************************************************)
(* PhishingInjector: simulations shown in the page                         *)
(***************************************************************************)
SimulationIds == {"sim-1", "sim-2"}

\* simulation.content.styling.position
Positions == {"modal", "banner", "notification", "inline"}

NoInjection ==
    [called |-> FALSE, id |-> "", position |-> "", wasActive |-> FALSE,
     returned |-> FALSE, added |-> FALSE, shown |-> FALSE]

\* activeSimulations (id -> serial of its element, 0 when absent), the
\* simulation elements in the document, the pending setTimeout callbacks, the
\* number of injectSimulation calls and the outcome of the last one
InitInjector ==
    injector = [active   |-> [id \in SimulationIds |-> 0],
                page     |-> {},
                timers   |-> {},
                calls    |-> 0,
                last     |-> NoInjection]

\* injectModal / injectBanner / injectNotification append an element and
\* register it; injectInline only logs
AddsElement(position) == position # "inline"

\* the same message from both runs
SendBoth(message) == Send([r \in Runs |-> <<message>>])

\* PhishingInjector.injectSimulation on an INJECT_SIMULATION message
InjectSimulation(id, position) ==
    /\ injector.calls < MaxInjections
    /\ \A r \in Runs : Len(outbox[r]) < MaxMessages
    /\ LET wasActive == injector.active[id] # 0
           adds      == ~wasActive /\ AddsElement(position)
           serial    == injector.calls + 1
       IN /\ injector' =
                [injector EXCEPT
                    !.calls  = @ + 1,
                    !.active = IF adds THEN [@ EXCEPT ![id] = serial] ELSE @,
                    !.page   = IF adds
                               THEN @ \cup {[id |-> id, serial |-> serial]}
                               ELSE @,
                    !.last   = [called |-> TRUE, id |-> id,
                                position |-> position,
                                wasActive |-> wasActive,
                                returned |-> ~wasActive,
                                added |-> adds,
                                shown |-> ~wasActive]]
          /\ IF wasActive
             THEN UNCHANGED outbox
             ELSE SendBoth(reportEvent("SIMULATION_SHOWN", id, Null, now))
    /\ UNCHANGED <<now, detInput, detResult, typed, dashboard, trackerVars,
                   mlVars, engineVars, rtVars, ctxVars>>

\* removeSimulation: the timers pending after the call
removeSimulation(state, id) ==
    IF state.active[id] # 0
    THEN state.timers
            \cup {[kind |-> "remove", id |-> id, serial |-> state.active[id]]}
    ELSE state.timers

\* the close button of a shown element: handleSimulationDetected
CloseSimulation(element) ==
    /\ element \in injector.page
    /\ \A r \in Runs : Len(outbox[r]) < MaxMessages
    /\ SendBoth(reportEvent("SIMULATION_DETECTED", element.id, Null, now))
    /\ injector' =
          [injector EXCEPT !.timers = removeSimulation(injector, element.id)]
    /\ UNCHANGED <<now, detInput, detResult, typed, dashboard, trackerVars,
                   mlVars, engineVars, rtVars, ctxVars>>

\* the action button of a shown element: handleActionClicked
ClickAction(element) ==
    /\ element \in injector.page
    /\ \A r \in Runs : Len(outbox[r]) < MaxMessages
    /\ SendBoth(reportEvent("LINK_CLICKED", element.id, Null, now))
    /\ injector' =
          [injector EXCEPT
              !.timers = @ \cup {[kind |-> "afterClick", id |-> element.id,
                                  serial |-> element.serial]}]
    /\ UNCHANGED <<now, detInput, detResult, typed, dashboard, trackerVars,
                   mlVars, engineVars, rtVars, ctxVars>>

\* a setTimeout callback runs: removeSimulation three seconds after a click,
\* or the removal of the element and of its activeSimulations entry
TimerFires(timer) ==
    /\ timer \in injector.timers
    /\ injector' =
          IF timer.kind = "afterClick"
          THEN [injector EXCEPT
                   !.timers = removeSimulation(injector, timer.id) \ {timer}]
          ELSE [injector EXCEPT
                   !.timers = @ \ {timer},
                   !.page   = @ \ {[id |-> timer.id, serial |-> timer.serial]},
                   !.active = [@ EXCEPT ![timer.id] = 0]]
    /\ UNCHANGED <<now, detInput, detResult, typed, outbox, dashboard,
                   trackerVars, mlVars, engineVars, rtVars, ctxVars>>

(***************************************************************************)
(* CredentialDetector (rule-based risk detector)                           *)
(***************************************************************************)
RiskFactor(type, severity) == [type |-> type, severity |-> severity]

\* Array.prototype.some over a sequence
Some(seq, P(_)) == \E i \in 1..Len(seq) : P(seq[i])

\* patterns.username: /username/i, /user/i, /email/i, /login/i, /account/i
UsernamePatterns == <<"username", "user", "email", "login", "account">>

MatchesUsernamePattern(name) ==
    LET l == ToLowerCase(name)
    IN \E k \in 1..Len(UsernamePatterns) : Includes(l, UsernamePatterns[k])

knownLegitimateDomains ==
    <<"github.com", "linkedin.com", "google.com", "accounts.google.com",
      "login.microsoftonline.com", "appleid.apple.com", "amazon.com">>

\* new URL(url) for the shapes scheme://host and scheme://host/path: protocol
\* with its colon, hostname in lower case; anything else fails to parse
ParseUrl(url) ==
    LET sep == IndexOfFrom(url, "://", 1)
    IN IF sep <= 1
       THEN [valid |-> FALSE, protocol |-> "", hostname |-> ""]
       ELSE LET rest  == SubSeq(url, sep + 3, Len(url))
                slash == IndexOfFrom(rest, "/", 1)
                host  == IF slash = 0 THEN rest ELSE SubSeq(rest, 1, slash - 1)
            IN IF Len(host) = 0
               THEN [valid |-> FALSE, protocol |-> "", hostname |-> ""]
               ELSE [valid    |-> TRUE,
                     protocol |-> ToLowerCase(SubSeq(url, 1, sep)),
                     hostname |-> ToLowerCase(host)]

suspiciousPatterns ==
    <<<<"signin", "verify">>, <<"secure", "login">>, <<"account", "update">>,
      <<"confirm", "identity">>, <<"auth", "verify">>>>

shorteners == <<"bit.ly", "tinyurl.com", "t.co", "goo.gl", "ow.ly">>

\* the running {score, factors} pair of the analyze* helpers
Add(acc, cond, points, factor) ==
    IF cond
    THEN [score |-> acc.score + points, factors |-> Append(acc.factors, factor)]
    ELSE acc

analyzeUrl(url) ==
    LET urlObj == ParseUrl(url)
        domain == urlObj.hostname
        isLegitimate ==
            \E k \in 1..Len(knownLegitimateDomains) :
                \/ domain = knownLegitimateDomains[k]
                \/ EndsWith(domain, "." \o knownLegitimateDomains[k])
        a0 == [score |-> 0, factors |-> <<>>]
        a1 == Add(a0, urlObj.protocol # "https:", 20,
                  RiskFactor("insecure_protocol", "high"))
        a2 == Add(a1, ~isLegitimate, 15, RiskFactor("unknown_domain", "medium"))
        lowerUrl == ToLowerCase(url)   \* the patterns have the i flag
        a3 == Add(a2, \E k \in 1..Len(suspiciousPatterns) :
                         IncludesThen(lowerUrl, suspiciousPatterns[k][1],
                                      suspiciousPatterns[k][2]),
                  10, RiskFactor("suspicious_url_pattern", "medium"))
        a4 == Add(a3, IsDottedQuad(domain), 20, RiskFactor("ip_address", "high"))
        a5 == Add(a4, \E k \in 1..Len(shorteners) : Includes(domain, shorteners[k]),
                  15, RiskFactor("url_shortener", "medium"))
    IN IF urlObj.valid
       THEN a5
       ELSE [score |-> 30, factors |-> <<RiskFactor("invalid_url", "high")>>]

urgencyKeywords ==
    <<"immediately", "urgent", "asap", "right now", "limited time",
      "account will be", "suspended", "terminated", "24 hours">>

securityKeywords ==
    <<"verify", "confirm", "update", "security", "unauthorized", "suspicious",
      "breach", "compromised">>

commonTypos == <<"acount", "verfy", "securty", "login", "signin">>

\* keywords.filter(k => content.includes(k)).length
CountIncluded(content, keywords) ==
    Cardinality({k \in 1..Len(keywords) : Includes(content, keywords[k])})

analyzeContent(content) ==
    LET lowerContent  == ToLowerCase(content)
        urgencyCount  == CountIncluded(lowerContent, urgencyKeywords)
        securityCount == CountIncluded(lowerContent, securityKeywords)
        a0 == [score |-> 0, factors |-> <<>>]
        a1 == Add(a0, urgencyCount > 0, Min(urgencyCount * 5, 15),
                  RiskFactor("urgency_language", "medium"))
        a2 == IF securityCount > 2
              THEN [a1 EXCEPT !.score = @ + Min((securityCount - 2) * 3, 10)]
              ELSE a1
        a3 == Add(a2, \E k \in 1..Len(commonTypos) :
                         Includes(lowerContent, commonTypos[k]),
                  5, RiskFactor("suspicious_spelling", "low"))
    IN a3

analyzeBehavior(behavior) ==
    LET a0 == [score |-> 0, factors |-> <<>>]
        a1 == Add(a0, behavior.timeOnPage < 3000 /\ behavior.keystrokes > 10,
                  5, RiskFactor("rushed_behavior", "low"))
        a2 == Add(a1, behavior.mouseMovements < 5 /\ behavior.keystrokes > 20,
                  5, RiskFactor("low_interaction", "low"))
    IN a2

\* the threshold analyze compares the score with (0.6)
DetectorThreshold == 60

\* analyze without the password-field conjunct of its verdict
AnalyzeVerdict_ScoreOnly(hasPasswordField, riskScore) ==
    riskScore > DetectorThreshold

\* the verdict expression of analyze
AnalyzeVerdict(hasPasswordField, riskScore) ==
    hasPasswordField /\ riskScore > DetectorThreshold

\* every factor analyze pushes, in discovery order, with the summed score
AnalyzeFindings(input) ==
    LET hasPasswordField == Some(input.formFields, LAMBDA f : f.isPassword)
        hasUsernameField ==
            Some(input.formFields,
                 LAMBDA f : f.type = "email" \/ MatchesUsernamePattern(f.name))
        a0 == [score |-> 0, factors |-> <<>>]
        a1 == Add(a0, hasPasswordField, 25, RiskFactor("password_field", "high"))
        a2 == IF hasUsernameField THEN [a1 EXCEPT !.score = @ + 10] ELSE a1
        urlRisk      == analyzeUrl(input.url)
        contentRisk  == analyzeContent(input.pageTitle \o " " \o input.pageContent)
        behaviorRisk == analyzeBehavior(input.userBehavior)
    IN [hasPasswordField |-> hasPasswordField,
        factors |-> a2.factors \o urlRisk.factors \o contentRisk.factors
                       \o behaviorRisk.factors,
        score   |-> a2.score + urlRisk.score + contentRisk.score
                       + behaviorRisk.score]

\* a truncation that keeps the last five factors instead of the first five
LimitFactors_LastFive(riskFactors) ==
    SubSeq(riskFactors, Max(1, Len(riskFactors) - 4), Len(riskFactors))

\* riskFactors.slice(0, 5)
LimitFactors(riskFactors) ==
    SubSeq(riskFactors, 1, Min(5, Len(riskFactors)))

analyze(input) ==
    LET found     == AnalyzeFindings(input)
        riskScore == Min(found.score, 100)
    IN [isCredentialEntry |-> AnalyzeVerdict(found.hasPasswordField, riskScore),
        confidence        |-> riskScore,
        riskFactors       |-> LimitFactors(found.factors)]

(***************************************************************************)
(* MLModel (model-backed detector with the heuristic fallback)             *)
(***************************************************************************)
CONFIDENCE_THRESHOLD == 75

\* patterns of isSuspiciousUrl
isSuspiciousUrl(url) ==
    LET l == ToLowerCase(url)   \* every pattern but the last has the i flag
    IN \/ Includes(l, "phish")
       \/ Includes(l, "fake")
       \/ IncludesThen(l, "login", "verify")
       \/ IncludesThen(l, "security", "check")
       \/ Includes(l, "bit.ly") \/ Includes(l, "tinyurl") \/ Includes(l, "t.co")
       \/ ContainsDottedQuad(url)

suspiciousContentKeywords ==
    <<"verify", "confirm", "update", "suspend", "limited", "unusual activity",
      "unauthorized", "breach", "expired", "account will be", "immediate action",
      "click here">>

hasSuspiciousContent(content) ==
    CountIncluded(ToLowerCase(content), suspiciousContentKeywords) > 0

\* the verdict expression of heuristicPrediction
HeuristicVerdict(hasPassword, score) == score > CONFIDENCE_THRESHOLD

heuristicPrediction(input) ==
    LET hasPassword  == Some(input.formFields, LAMBDA f : f.isPassword)
        hiddenFields == Cardinality({i \in 1..Len(input.formFields) :
                                        input.formFields[i].isHidden})
        a0 == [score |-> 0, factors |-> <<>>]
        a1 == Add(a0, hasPassword, 30, RiskFactor("password_field", "high"))
        a2 == Add(a1, ~StartsWith(input.url, "https"), 20,
                  RiskFactor("insecure_connection", "high"))
        a3 == Add(a2, isSuspiciousUrl(input.url), 30,
                  RiskFactor("suspicious_url", "high"))
        a4 == Add(a3, input.userBehavior.timeOnPage < 5000
                        /\ input.userBehavior.keystrokes > 10,
                  10, RiskFactor("rushed_entry", "low"))
        a5 == Add(a4, hiddenFields > 2, 10, RiskFactor("hidden_fields", "medium"))
        a6 == Add(a5, hasSuspiciousContent(input.pageContext), 20,
                  RiskFactor("urgent_language", "medium"))
    IN [isCredentialEntry |-> HeuristicVerdict(hasPassword, a6.score),
        confidence        |-> Min(a6.score, 100),
        riskFactors       |-> a6.factors]

identifyRiskFactors(input) ==
    LET a0 == [score |-> 0, factors |-> <<>>]
        a1 == Add(a0, Some(input.formFields, LAMBDA f : f.isPassword), 0,
                  RiskFactor("password_field", "high"))
        a2 == Add(a1, ~StartsWith(input.url, "https"), 0,
                  RiskFactor("insecure", "high"))
        a3 == Add(a2, isSuspiciousUrl(input.url), 0, RiskFactor("url", "high"))
    IN a3.factors

\* the prediction built from the network's output values[1]
modelPrediction(input, credentialEntryProbability) ==
    [isCredentialEntry |-> credentialEntryProbability > CONFIDENCE_THRESHOLD,
     confidence        |-> credentialEntryProbability,
     riskFactors       |-> identifyRiskFactors(input)]

\* placeholder for a prediction that does not exist
NoPrediction ==
    [isCredentialEntry |-> FALSE, confidence |-> 0, riskFactors |-> <<>>]

\* the outcome of a predict call that returns p
Returned(path, p) == [status |-> "returned", path |-> path, prediction |-> p]

\* a catch block that rethrows instead of falling back
PredictCatch_Rethrow(input) == [status |-> "threw", path |-> "catch",
                                prediction |-> NoPrediction]

\* the catch block of predict, entered when inference throws
PredictCatch(input) == Returned("catch", heuristicPrediction(input))

\* the branch of predict taken while loaded is false
PredictNotLoaded(input) == Returned("heuristic", heuristicPrediction(input))

\* the branch of predict taken when there is no model or no TensorFlow
PredictNoModel(input) == Returned("heuristic", heuristicPrediction(input))

\* predict(input): inferenceThrows and probability are the outcome of the
\* TensorFlow calls, which matter only on the model path
predict(input, inferenceThrows, probability) ==
    IF ~loaded
    THEN PredictNotLoaded(input)
    ELSE IF model # Null /\ tfDefined
         THEN IF inferenceThrows
              THEN PredictCatch(input)
              ELSE Returned("model", modelPrediction(input, probability))
         ELSE PredictNoModel(input)

\* values[1] of the softmax output, in hundredths
Probabilities == {0, 75, 76, 100}

NoMlResult ==
    [called |-> FALSE, status |-> "none", path |-> "none", loaded |-> FALSE,
     model |-> Null, threw |-> FALSE, prediction |-> NoPrediction]

\* MLModel.initialize with loadModel: outcome says where loadModel failed
initialize(outcome) ==
    /\ ~loaded
    /\ loaded' = TRUE
    /\ model' = IF tfDefined /\ outcome \in {"ok", "compile_throws"}
                THEN "net"
                ELSE model
    /\ UNCHANGED <<now, tfDefined, mlInput, mlResult, trackerVars, engineVars,
                   detVars, rtVars, ctxVars>>

Predict(inferenceThrows, probability) ==
    /\ mlResult' =
          LET r == predict(mlInput, inferenceThrows, probability)
          IN [called     |-> TRUE,
              status     |-> r.status,
              path       |-> r.path,
              loaded     |-> loaded,
              model      |-> model,
              threw      |-> loaded /\ model # Null /\ tfDefined
                                /\ inferenceThrows,
              prediction |-> r.prediction]
    /\ UNCHANGED <<now, loaded, model, tfDefined, mlInput, trackerVars,
                   engineVars, detVars, rtVars, ctxVars>>

(***************************************************************************)
(* Inputs of the two detectors                                             *)
(***************************************************************************)
FormFields ==
    {[type |-> "password", name |-> "password", isPassword |-> TRUE,
      isHidden |-> FALSE],
     [type |-> "email", name |-> "Email", isPassword |-> FALSE,
      isHidden |-> FALSE],
     [type |-> "text", name |-> "q", isPassword |-> FALSE, isHidden |-> FALSE],
     [type |-> "hidden", name |-> "csrf", isPassword |-> FALSE,
      isHidden |-> TRUE]}

FormFieldLists == UNION {[1..n -> FormFields] : n \in 0..MaxFields}

Urls ==
    {"https://github.com/login",
     "http://github.com/login",
     "http://evil.test/secure-login",
     "http://10.0.0.1/signin/verify",
     "https://bit.ly/x",
     "not a url"}

PageTexts ==
    {"",
     "Reply today, this is urgent",
     "URGENT: your account will be suspended immediately",
     "Please verify and confirm, then update security"}

Behaviors ==
    {[timeOnPage |-> 10000, mouseMovements |-> 50, keystrokes |-> 5,
      formInteractions |-> 2],
     [timeOnPage |-> 1000, mouseMovements |-> 0, keystrokes |-> 25,
      formInteractions |-> 2]}

DetectionInputs ==
    [formFields : FormFieldLists, url : Urls, pageTitle : {"Welcome"},
     pageContent : PageTexts, userBehavior : Behaviors]

MLInputs ==
    [formFields : FormFieldLists, url : Urls, pageContext : PageTexts,
     userBehavior : Behaviors]

NoDetectionInput ==
    [formFields |-> <<>>, url |-> "", pageTitle |-> "", pageContent |-> "",
     userBehavior |-> [timeOnPage |-> 0, mouseMovements |-> 0, keystrokes |-> 0,
                       formInteractions |-> 0]]

NoMLInput ==
    [formFields |-> <<>>, url |-> "", pageContext |-> "",
     userBehavior |-> [timeOnPage |-> 0, mouseMovements |-> 0, keystrokes |-> 0,
                       formInteractions |-> 0]]

NoDetResult == [called |-> FALSE, prediction |-> NoPrediction]

Analyze ==
    /\ ~detResult.called
    /\ detResult' = [called |-> TRUE, prediction |-> analyze(detInput)]
    /\ UNCHANGED <<now, detInput, typed, outbox, dashboard, injector,
                   trackerVars, mlVars,
                   engineVars, rtVars,
                   ctxVars>>

(***************************************************************************)
(* SimulationEngine and the service worker's CONTEXT_UPDATE handler        *)
(***************************************************************************)
MIN_INTERVAL_MS == 300000

\* the clock advances by half or by all of the minimum interval
ClockStep == MIN_INTERVAL_MS \div 2

MaxTime == StartTime + MaxTicks * MIN_INTERVAL_MS

SessionCap == 5

\* UserContext records; "" and <<>> stand for absent optional fields, and
\* the platform "null" for a map entry that holds no context
EmptyContext(platform) ==
    [platform |-> platform, username |-> "", email |-> "", organization |-> "",
     recentActivity |-> <<>>, connections |-> <<>>]

AbsentContext == EmptyContext(Null)

FullContext(platform) ==
    [platform |-> platform, username |-> "alice", email |-> "alice@corp.test",
     organization |-> "Corp",
     recentActivity |-> <<[type |-> "commit", content |-> "Fix auth bug"]>>,
     connections |-> <<[name |-> "bob"]>>]

\* the Partial<UserContext> payloads of CONTEXT_UPDATE messages
WorkerContexts(platform) == {EmptyContext(platform), FullContext(platform)}

WorkerPlatforms == {GITHUB, UNKNOWN}

\* Math.random(), in hundredths
RandomDraws == {10, 40, 70}

calculateContextFactor(context) ==
    (IF context.username # "" THEN 10 ELSE 0)
      + (IF context.email # "" THEN 10 ELSE 0)
      + (IF context.organization # "" THEN 10 ELSE 0)
      + (IF Len(context.connections) > 0 THEN 10 ELSE 0)
      + (IF Len(context.recentActivity) > 0 THEN 10 ELSE 0)

\* the two early returns of shouldTriggerSimulation
TooSoon(time, last) == time - last < MIN_INTERVAL_MS

\* no cap test at all
AtCap_Never(count) == FALSE

\* the cap test off by one
AtCap_OffByOne(count) == count > SessionCap

AtCap(count) == count >= SessionCap

shouldTriggerSimulation(context, time, last, count, random) ==
    IF TooSoon(time, last)
    THEN FALSE
    ELSE IF AtCap(count)
         THEN FALSE
         ELSE LET baseChance    == 20
                  contextFactor == calculateContextFactor(context)
                  probability   == Min(baseChance + contextFactor, 60)
              IN random < probability

\* PHISHING_TEMPLATES has no entry for Platform.UNKNOWN, so generateContent
\* fails on templates.subjects before the cadence fields are written
generateSimulationThrows(platform) == platform \notin {GITHUB, LINKEDIN, GMAIL}

NoTrigger ==
    [called |-> FALSE, pending |-> FALSE, time |-> 0, last |-> 0, count |-> 0,
     result |-> FALSE]

IdleHandler == [pc |-> "idle", platform |-> UNKNOWN]

\* handleContextUpdate up to its first await (storage.set)
ContextUpdateStore(h, platform, context) ==
    /\ handlers[h].pc = "idle"
    /\ context.platform = platform
    /\ userContext' = [userContext EXCEPT ![platform] = context]
    /\ handlers' = [handlers EXCEPT ![h] = [pc |-> "stored", platform |-> platform]]
    /\ UNCHANGED <<now, lastSimulationTime, simulationCount, triggerLog,
                   generated, injected, trackerVars, mlVars, detVars, rtVars,
                   ctxVars>>

\* after storage.set: the enabled / campaign check, shouldTriggerSimulation,
\* and, when it says yes, injectSimulation up to its await of tabs.query
ContextUpdateDecide(h, random) ==
    /\ handlers[h].pc = "stored"
    /\ LET platform == handlers[h].platform
           checked  == extensionState.enabled
                          /\ extensionState.currentCampaign # ""
           result   == shouldTriggerSimulation(userContext[platform], now,
                          lastSimulationTime, simulationCount, random)
       IN handlers' =
             [handlers EXCEPT ![h].pc =
                 IF checked /\ result THEN "queried" ELSE "idle"]
    /\ UNCHANGED <<now, lastSimulationTime, simulationCount, userContext,
                   triggerLog, generated, injected, trackerVars, mlVars,
                   detVars, rtVars, ctxVars>>

\* after tabs.query: generateSimulation and the INJECT_SIMULATION message
\* handed to tabs.sendMessage; every failure is caught by injectSimulation
ContextUpdateInject(h, hasTab) ==
    /\ handlers[h].pc = "queried"
    /\ Len(generated) < MaxSimulations
    /\ LET platform == handlers[h].platform
           made     == hasTab /\ ~generateSimulationThrows(platform)
       IN /\ lastSimulationTime' = IF made THEN now ELSE lastSimulationTime
          /\ simulationCount' =
                IF made THEN simulationCount + 1 ELSE simulationCount
          /\ generated' = IF made THEN Append(generated, now) ELSE generated
          /\ injected' = IF made THEN injected + 1 ELSE injected
    /\ handlers' = [handlers EXCEPT ![h].pc = "idle"]
    /\ UNCHANGED <<now, userContext, triggerLog, trackerVars, mlVars, detVars,
                   rtVars, ctxVars>>

\* the SET_EXTENSION_ENABLED message
SetExtensionEnabled(enabled) ==
    /\ extensionState.enabled # enabled
    /\ extensionState' = [extensionState EXCEPT !.enabled = enabled]
    /\ UNCHANGED <<now, eventQueue, delivered, trainingData, samples,
                   lastEvent, mlVars,
                   engineVars, detVars, rtVars, ctxVars>>

\* syncWithDashboard: request returns null when the network fails
syncWithDashboard(netOk, campaignId) ==
    /\ extensionState' =
          [extensionState EXCEPT
              !.currentCampaign = IF netOk THEN campaignId ELSE @,
              !.lastSync = now]
    /\ UNCHANGED <<now, eventQueue, delivered, trainingData, samples,
                   lastEvent, mlVars,
                   engineVars, detVars, rtVars, ctxVars>>

\* the TRIGGER_SIMULATION message: triggerSimulation sends the simulation it
\* was given to the active tab, if there is one
TriggerSimulation(hasTab) ==
    /\ injected < MaxSimulations
    /\ injected' = IF hasTab THEN injected + 1 ELSE injected
    /\ UNCHANGED <<now, userContext, lastSimulationTime, simulationCount,
                   handlers, triggerLog, generated, trackerVars, mlVars,
                   detVars, rtVars, ctxVars>>

\* time passes
Tick(step) ==
    /\ now + step <= MaxTime
    /\ now' = now + step
    /\ UNCHANGED <<trackerVars, mlVars, engineVars, detVars, rtVars, ctxVars>>

\* a direct call of shouldTriggerSimulation; the answer is kept for the
\* generateSimulation call that may follow it
ShouldTrigger(context, random) ==
    /\ triggerLog' =
          [called  |-> TRUE,
           time    |-> now,
           last    |-> lastSimulationTime,
           count   |-> simulationCount,
           result  |-> shouldTriggerSimulation(context, now, lastSimulationTime,
                                               simulationCount, random),
           pending |-> shouldTriggerSimulation(context, now, lastSimulationTime,
                                               simulationCount, random)]
    /\ UNCHANGED <<now, lastSimulationTime, simulationCount, handlers,
                   generated, injected, userContext, trackerVars, mlVars,
                   detVars, rtVars, ctxVars>>

(***************************************************************************)
(* PhishingGenerator.generateRedTeamScenario                               *)
(***************************************************************************)
CREDENTIAL_HARVEST == "credential_harvest"

\* customPayload || fallback ("" stands for an absent payload too)
OrElse(text, fallback) == IF text # "" THEN text ELSE fallback

\* a content object that always uses the stock text
RedTeamContent_StockText(targetUser, customPayload) ==
    [title |-> "Internal: Action Required",
     body |-> "Hi " \o targetUser \o ",\n\n"
                \o "Please review the attached document and provide your feedback by EOD.",
     sender |-> "IT Security Team",
     senderEmail |-> "security@company.local",
     urgency |-> "high",
     actionText |-> "View Document",
     actionUrl |-> "https://docs.company-secure.local",
     styling |-> [position |-> "notification", theme |-> "light"]]

\* the content object of generateRedTeamScenario
RedTeamContent(targetUser, customPayload) ==
    [title |-> "Internal: " \o OrElse(customPayload, "Action Required"),
     body |-> "Hi " \o targetUser \o ",\n\n"
                \o OrElse(customPayload,
                     "Please review the attached document and provide your feedback by EOD."),
     sender |-> "IT Security Team",
     senderEmail |-> "security@company.local",
     urgency |-> "high",
     actionText |-> "View Document",
     actionUrl |-> "https://docs.company-secure.local",
     styling |-> [position |-> "notification", theme |-> "light"]]

\* a scenario whose urgency is drawn at random, as on the training path
generateRedTeamScenario_RandomUrgency(targetUser, attackVector, customPayload, time, random) ==
    [id |-> <<"gen", time, random>>,
     type |-> CREDENTIAL_HARVEST,
     targetPlatform |-> GMAIL,
     content |-> [RedTeamContent(targetUser, customPayload)
                     EXCEPT !.urgency = IF random < 50 THEN "high" ELSE "critical"],
     triggerConditions |-> <<>>,
     metadata |->
        [createdAt |-> time,
         campaignId |-> "red-team",
         difficulty |-> "expert",
         trainingObjective |-> "Red team exercise",
         redTeamControlled |-> TRUE]]

generateRedTeamScenario(targetUser, attackVector, customPayload, time, random) ==
    [id |-> <<"gen", time, random>>,
     type |-> CREDENTIAL_HARVEST,
     targetPlatform |-> GMAIL,
     content |-> RedTeamContent(targetUser, customPayload),
     triggerConditions |-> <<>>,
     metadata |->
        [createdAt |-> time,
         campaignId |-> "red-team",
         difficulty |-> "expert",
         trainingObjective |-> "Red team exercise",
         redTeamControlled |-> TRUE]]

TargetUsers   == {"alice", "bob"}
AttackVectors == {"Business Email Compromise", "oauth_grant"}
Payloads      == {"", "Pay this invoice"}
IdDraws       == {11, 73}

\* one generateRedTeamScenario call: its arguments, the engine's cadence
\* fields before and after it, and the simulation it returned
RedTeam(targetUser, attackVector, customPayload, random) ==
    /\ UNCHANGED <<now, planned, trackerVars, mlVars, engineVars, detVars,
                   ctxVars>>
    /\ rtResults' =
          LET call == [args |-> <<targetUser, attackVector, customPayload>>,
                       cadenceBefore |-> <<lastSimulationTime, simulationCount>>,
                       cadenceAfter |-> <<lastSimulationTime', simulationCount'>>,
                       simulation |->
                          generateRedTeamScenario(targetUser, attackVector,
                                                  customPayload, now, random)]
          IN IF Len(rtResults) < 2
             THEN Append(rtResults, call)
             ELSE <<rtResults[2], call>>

(***************************************************************************)
(* The randomized plan path: PhishingGenerator.generate and                *)
(* SimulationEngine.generateSimulation                                     *)
(***************************************************************************)
OAUTH_GRANT      == "oauth_grant"
MFA_BYPASS       == "mfa_bypass"
SESSION_HIJACK   == "session_hijack"
CLIPBOARD_HIJACK == "clipboard_hijack"
FILE_DOWNLOAD    == "file_download"

PhishingType ==
    {CREDENTIAL_HARVEST, OAUTH_GRANT, MFA_BYPASS, SESSION_HIJACK,
     CLIPBOARD_HIJACK, FILE_DOWNLOAD}

\* arr[Math.floor(Math.random() * arr.length)] as a 1-based index, with
\* Math.random() given in hundredths (0..99)
RandomIndex(random, length) == (random * length) \div 100 + 1

\* the titles of templateSets in getTemplates, per platform and type
templateSets ==
    [p \in PlatformSet |->
        [t \in PhishingType |->
            CASE p = GITHUB /\ t = CREDENTIAL_HARVEST ->
                    <<"Critical: Repository access suspended",
                      "Security alert: New sign-in from unknown device">>
              [] p = GITHUB /\ t = OAUTH_GRANT ->
                    <<"GitHub App Authorization Required">>
              [] p = GITHUB /\ t = MFA_BYPASS ->
                    <<"Two-Factor Authentication Update Required">>
              [] p = GITHUB /\ t = SESSION_HIJACK -> <<"Session Expired">>
              [] p = GITHUB /\ t = CLIPBOARD_HIJACK -> <<"Verification Code">>
              [] p = GITHUB /\ t = FILE_DOWNLOAD ->
                    <<"Security Report Available">>
              [] p = LINKEDIN /\ t = CREDENTIAL_HARVEST ->
                    <<"{connection} shared a post with you",
                      "Your LinkedIn Premium trial expires today">>
              [] p = LINKEDIN /\ t = OAUTH_GRANT -> <<"New App Connection Request">>
              [] p = LINKEDIN /\ t = MFA_BYPASS ->
                    <<"Account Verification Required">>
              [] p = LINKEDIN /\ t = SESSION_HIJACK -> <<"Login Required">>
              [] p = GMAIL /\ t = CREDENTIAL_HARVEST ->
                    <<"Google: Sign-in attempt was blocked",
                      "Your Gmail storage is 99% full">>
              [] p = GMAIL /\ t = OAUTH_GRANT ->
                    <<"Security Checkup: Third-party access">>
              [] p = GMAIL /\ t = MFA_BYPASS -> <<"2-Step Verification Update">>
              [] p = GMAIL /\ t = SESSION_HIJACK -> <<"Session Timeout">>
              [] p = GMAIL /\ t = FILE_DOWNLOAD -> <<"Secure file shared with you">>
              [] OTHER -> <<>>]]

\* templateSets[platform]?.[type] || templateSets[GITHUB][CREDENTIAL_HARVEST]:
\* every platform and type has an entry and an array, empty or not, is truthy,
\* so the right-hand side is taken only for a key outside the table
getTemplates(platform, type) ==
    IF platform \in DOMAIN templateSets /\ type \in DOMAIN templateSets[platform]
    THEN templateSets[platform][type]
    ELSE templateSets[GITHUB][CREDENTIAL_HARVEST]

\* vectorMap of selectAttackVector
vectorMap ==
    [v \in {"credential_harvest", "oauth_grant", "mfa_bypass", "session_hijack",
            "connection_impersonation"} |->
        CASE v = "oauth_grant" -> OAUTH_GRANT
          [] v = "mfa_bypass" -> MFA_BYPASS
          [] v = "session_hijack" -> SESSION_HIJACK
          [] OTHER -> CREDENTIAL_HARVEST]

RECURSIVE MapVectors(_)
\* candidates.map(v => vectorMap[v]).filter(Boolean)
MapVectors(candidates) ==
    IF candidates = <<>>
    THEN <<>>
    ELSE (IF candidates[1] \in DOMAIN vectorMap
          THEN <<vectorMap[candidates[1]]>>
          ELSE <<>>) \o MapVectors(Tail(candidates))

selectAttackVector(candidates, difficulty, random) ==
    LET validTypes == MapVectors(candidates)
    IN IF validTypes = <<>>
       THEN CREDENTIAL_HARVEST
       ELSE IF difficulty = "expert"
       THEN IF \E i \in 1..Len(validTypes) : validTypes[i] = OAUTH_GRANT
            THEN OAUTH_GRANT
            ELSE validTypes[1]
       ELSE validTypes[RandomIndex(random, Len(validTypes))]

\* PhishingGenerator.generateTriggers at Date.now() = time
generateTriggers(time, random) ==
    <<[type |-> "time", value |-> time + 5000 + (random * 30000) \div 100,
       operator |-> "gt"],
      [type |-> "action", value |-> "page_visible", operator |-> "equals"]>>

\* SimulationEngine.generateTriggerConditions at Date.now() = time
generateTriggerConditions(time, random) ==
    <<[type |-> "time", value |-> time + (random * 60000) \div 100,
       operator |-> "gt"],
      [type |-> "action", value |-> "page_focus", operator |-> "equals"]>>

\* a call that ended in a TypeError instead of a simulation
Thrown(source, platform) ==
    [called |-> TRUE, source |-> source, threw |-> TRUE, platform |-> platform,
     type |-> "", title |-> "", triggerConditions |-> <<>>, createdAt |-> 0]

NoPlan ==
    [called |-> FALSE, source |-> "", threw |-> FALSE, platform |-> UNKNOWN,
     type |-> "", title |-> "", triggerConditions |-> <<>>, createdAt |-> 0]

\* PhishingGenerator.generate: the type, the template title, the triggers and
\* the creation time of the simulation, or the TypeError raised by
\* template.title when the family is empty
generate(platform, candidates, difficulty, time, pick, delay) ==
    LET type      == selectAttackVector(candidates, difficulty, pick)
        templates == getTemplates(platform, type)
    IN IF templates = <<>>
       THEN Thrown("generator", platform)
       ELSE [called |-> TRUE, source |-> "generator", threw |-> FALSE,
             platform |-> platform, type |-> type,
             title |-> templates[RandomIndex(pick, Len(templates))],
             triggerConditions |-> generateTriggers(time, delay),
             createdAt |-> time]

\* PHISHING_TEMPLATES: the first subject of each platform that has an entry
PHISHING_TEMPLATES ==
    [p \in {GITHUB, LINKEDIN, GMAIL} |->
        CASE p = GITHUB -> <<"Critical: Repository access suspended",
                             "Security alert: Unusual sign-in detected",
                             "Action required: 2FA verification needed",
                             "Your GitHub Copilot subscription expires today",
                             "Repository transfer request from {organization}">>
          [] p = LINKEDIN -> <<"{connection} shared a post with you",
                               "You appeared in {count} searches this week",
                               "Your LinkedIn Premium trial expires today",
                               "Action required: Verify your identity",
                               "{connection} endorsed you for a skill">>
          [] OTHER -> <<"Google Workspace: Security alert",
                        "Your Gmail storage is 99% full",
                        "Sign-in attempt blocked",
                        "Verify your recovery email",
                        "Google Drive: File shared with you">>]

\* the weights table of selectPhishingType
selectPhishingType(platform, random) ==
    LET platformTypes ==
            CASE platform = GITHUB ->
                    <<CREDENTIAL_HARVEST, OAUTH_GRANT, CREDENTIAL_HARVEST,
                      MFA_BYPASS>>
              [] platform = LINKEDIN ->
                    <<CREDENTIAL_HARVEST, OAUTH_GRANT, CREDENTIAL_HARVEST>>
              [] platform = GMAIL ->
                    <<CREDENTIAL_HARVEST, MFA_BYPASS, CREDENTIAL_HARVEST,
                      SESSION_HIJACK>>
              [] OTHER -> <<CREDENTIAL_HARVEST, OAUTH_GRANT, MFA_BYPASS>>
    IN platformTypes[RandomIndex(random, Len(platformTypes))]

\* SimulationEngine.generateSimulation: templates is undefined for a platform
\* without an entry in PHISHING_TEMPLATES and templates.subjects then throws
generateSimulation(platform, time, pick, delay) ==
    IF generateSimulationThrows(platform)
    THEN Thrown("engine", platform)
    ELSE [called |-> TRUE, source |-> "engine", threw |-> FALSE,
          platform |-> platform, type |-> selectPhishingType(platform, pick),
          title |-> PHISHING_TEMPLATES[platform][
                        RandomIndex(pick, Len(PHISHING_TEMPLATES[platform]))],
          triggerConditions |-> generateTriggerConditions(time, delay),
          createdAt |-> time]

\* the suggestedAttackVectors lists an analysis can carry
CandidateLists ==
    {<<"credential_harvest">>,
     <<"oauth_grant", "credential_harvest", "session_hijack">>,
     <<"credential_harvest", "connection_impersonation">>,
     <<>>}

Difficulties == {"easy", "expert"}

\* Math.random(), in hundredths, for the selections and for the trigger delay
PickDraws  == {0, 60}
DelayDraws == {0, 50, 99}

\* one call of PhishingGenerator.generate
Generate(platform, candidates, difficulty, pick, delay) ==
    /\ planned' = generate(platform, candidates, difficulty, now, pick, delay)
    /\ UNCHANGED <<now, rtResults, trackerVars, mlVars, engineVars, detVars,
                   ctxVars>>

\* generateSimulation called after shouldTriggerSimulation answered yes
GenerateSimulation(platform, pick, delay) ==
    /\ triggerLog.pending
    /\ Len(generated) < MaxSimulations
    /\ triggerLog' = [triggerLog EXCEPT !.pending = FALSE]
    /\ planned' = generateSimulation(platform, now, pick, delay)
    /\ IF generateSimulationThrows(platform)
       THEN UNCHANGED <<lastSimulationTime, simulationCount, generated>>
       ELSE /\ lastSimulationTime' = now
            /\ simulationCount' = simulationCount + 1
            /\ generated' = Append(generated, now)
    /\ UNCHANGED <<now, handlers, injected, userContext, rtResults, trackerVars,
                   mlVars, detVars, ctxVars>>

(***************************************************************************)
(* ContextAnalyzer                                                         *)
(***************************************************************************)
\* Object.values(userContexts).filter(Boolean)
RECURSIVE PresentContexts(_)
PresentContexts(entries) ==
    IF Len(entries) = 0 THEN <<>>
    ELSE (IF Head(entries).platform # Null THEN <<Head(entries)>> ELSE <<>>)
            \o PresentContexts(Tail(entries))

\* the elements of a sequence in first-occurrence order (a JavaScript Set)
RECURSIVE Distinct(_)
Distinct(seq) ==
    IF Len(seq) = 0 THEN <<>>
    ELSE LET init == Distinct(SubSeq(seq, 1, Len(seq) - 1))
             last == seq[Len(seq)]
         IN IF \E i \in 1..Len(init) : init[i] = last
            THEN init
            ELSE Append(init, last)

\* sum of a sequence of numbers
RECURSIVE Sum(_)
Sum(seq) == IF Len(seq) = 0 THEN 0 ELSE Head(seq) + Sum(Tail(seq))

\* concatenation of a sequence of sequences
RECURSIVE Flatten(_)
Flatten(seq) == IF Len(seq) = 0 THEN <<>> ELSE Head(seq) \o Flatten(Tail(seq))

\* Array.prototype.map
Map(seq, f(_)) == [i \in 1..Len(seq) |-> f(seq[i])]

SumOver(seq, f(_)) == Sum(Map(seq, f))

ConcatOver(seq, f(_)) == Flatten(Map(seq, f))

\* Array.prototype.sort with (a, b) => b[1] - a[1] on <<key, score>> pairs:
\* stable, descending by score
RECURSIVE SortEntries(_)
SortEntries(entries) ==
    IF Len(entries) = 0 THEN <<>>
    ELSE LET best == CHOOSE i \in 1..Len(entries) :
                        /\ \A j \in 1..Len(entries) : entries[j][2] <= entries[i][2]
                        /\ \A j \in 1..(i - 1) : entries[j][2] < entries[i][2]
             rest == SubSeq(entries, 1, best - 1)
                        \o SubSeq(entries, best + 1, Len(entries))
         IN <<entries[best]>> \o SortEntries(rest)

\* the keys of the sorted entries of a score table
SortDescending(keys, score(_)) ==
    Map(SortEntries(Map(keys, LAMBDA k : <<k, score(k)>>)), LAMBDA e : e[1])

calculateRiskProfile(contexts) ==
    LET riskScore ==
            50 + SumOver(contexts, LAMBDA c :
                    (IF Len(c.recentActivity) > 10 THEN 10 ELSE 0)
                      + (IF Len(c.connections) > 50 THEN 10 ELSE 0)
                      + (IF c.platform = LINKEDIN THEN 5 ELSE 0))
    IN IF riskScore >= 70 THEN "high"
       ELSE IF riskScore >= 40 THEN "medium"
       ELSE "low"

determinePrimaryPlatform(contexts) ==
    LET activityCounts(p) ==
            SumOver(contexts, LAMBDA c :
                IF c.platform = p THEN Len(c.recentActivity) ELSE 0)
        entries == SortDescending(Platform, activityCounts)
    IN entries[1]

FirstN(seq, n) == SubSeq(seq, 1, Min(n, Len(seq)))

extractKeyContacts(contexts) ==
    Distinct(ConcatOver(contexts, LAMBDA c :
        LET firstFive == FirstN(c.connections, 5)
        IN [i \in 1..Len(firstFive) |-> firstFive[i].name]))

topicNames == <<"security", "development", "business", "cloud", "data">>

topicKeywords ==
    [security    |-> <<"security", "phishing", "password", "auth", "2fa", "mfa">>,
     development |-> <<"code", "repo", "commit", "pull request", "merge", "bug",
                       "feature">>,
     business    |-> <<"meeting", "project", "deadline", "client", "revenue",
                       "sales">>,
     cloud       |-> <<"aws", "azure", "gcp", "cloud", "serverless", "deployment">>,
     data        |-> <<"database", "analytics", "metrics", "dashboard", "report">>]

\* score a topic gets from one piece of activity text
TopicScore(content, topic) ==
    CountIncluded(ToLowerCase(content), topicKeywords[topic])

extractTopics(contexts) ==
    LET activities == ConcatOver(contexts, LAMBDA c : c.recentActivity)
        \* topics in the order their keys enter topicScores
        touched == Distinct(ConcatOver(activities, LAMBDA a :
                      ConcatOver(topicNames, LAMBDA t :
                          IF TopicScore(a.content, t) > 0 THEN <<t>> ELSE <<>>)))
        topicScores(t) == SumOver(activities, LAMBDA a : TopicScore(a.content, t))
    IN FirstN(SortDescending(touched, topicScores), 3)

extractOrganizations(contexts) ==
    Distinct(ConcatOver(contexts, LAMBDA c :
        IF c.organization # "" THEN <<c.organization>> ELSE <<>>))

suggestAttackVectors(contexts) ==
    LET includes(p) == \E i \in 1..Len(contexts) : contexts[i].platform = p
    IN Distinct(
          (IF includes(GITHUB)
           THEN <<"oauth_grant", "credential_harvest", "session_hijack">>
           ELSE <<>>)
          \o (IF includes(LINKEDIN)
              THEN <<"credential_harvest", "connection_impersonation">>
              ELSE <<>>)
          \o (IF includes(GMAIL)
              THEN <<"credential_harvest", "oauth_grant", "mfa_bypass">>
              ELSE <<>>))

\* Math.round(x) for the non-negative fraction n / d
RoundFraction(n, d) == (2 * n + d) \div (2 * d)

calculatePersonalizationScore(contexts) ==
    LET score == SumOver(contexts, LAMBDA c :
                    (IF c.username # "" THEN 1 ELSE 0)
                      + (IF c.email # "" THEN 1 ELSE 0)
                      + (IF c.organization # "" THEN 1 ELSE 0)
                      + (IF Len(c.connections) > 0 THEN 1 ELSE 0))
        maxScore == Len(contexts) * 4
    IN RoundFraction(score * 100, maxScore)

\* a default analysis that suggests no attack vector
getDefaultAnalysis_NoVectors ==
    [riskProfile            |-> "medium",
     primaryPlatform        |-> UNKNOWN,
     keyContacts            |-> <<>>,
     topics                 |-> <<>>,
     organizations          |-> <<>>,
     suggestedAttackVectors |-> <<>>,
     personalizationScore   |-> 0]

getDefaultAnalysis ==
    [riskProfile            |-> "medium",
     primaryPlatform        |-> UNKNOWN,
     keyContacts            |-> <<>>,
     topics                 |-> <<>>,
     organizations          |-> <<>>,
     suggestedAttackVectors |-> <<"credential_harvest">>,
     personalizationScore   |-> 0]

\* the early return of ContextAnalyzer.analyze
NoContexts(contexts) == Len(contexts) = 0

ContextAnalyzer_analyze(userContexts) ==
    LET contexts == PresentContexts(userContexts)
    IN IF NoContexts(contexts)
       THEN getDefaultAnalysis
       ELSE [riskProfile            |-> calculateRiskProfile(contexts),
             primaryPlatform        |-> determinePrimaryPlatform(contexts),
             keyContacts            |-> extractKeyContacts(contexts),
             topics                 |-> extractTopics(contexts),
             organizations          |-> extractOrganizations(contexts),
             suggestedAttackVectors |-> suggestAttackVectors(contexts),
             personalizationScore   |-> calculatePersonalizationScore(contexts)]

\* a context with three connections and some activity
RichContext(platform) ==
    [platform |-> platform, username |-> "alice", email |-> "",
     organization |-> "Corp",
     recentActivity |-> <<[type |-> "commit", content |-> "Fix auth bug"],
                          [type |-> "mail", content |-> "Client meeting"]>>,
     connections |-> <<[name |-> "bob"], [name |-> platform \o "-carol"],
                       [name |-> platform \o "-dave"],
                       [name |-> platform \o "-erin"],
                       [name |-> platform \o "-frank"],
                       [name |-> platform \o "-grace"]>>]

\* the value a context map can hold under the key platform
ContextValues(platform) ==
    {AbsentContext, EmptyContext(platform), RichContext(platform)}

\* context maps as the sequence of their values in key insertion order
ContextMaps ==
    UNION { { m \in [1..n -> UNION {ContextValues(p) : p \in PlatformSet}] :
                \E keys \in [1..n -> PlatformSet] :
                    /\ \A i, j \in 1..n : i # j => keys[i] # keys[j]
                    /\ \A i \in 1..n : m[i] \in ContextValues(keys[i]) }
            : n \in 0..MaxContexts }

NoAnalysis == [called |-> FALSE, analysis |-> getDefaultAnalysis]

AnalyzeContext ==
    /\ ~ctxResult.called
    /\ ctxResult' = [called |-> TRUE,
                     analysis |-> ContextAnalyzer_analyze(ctxInput)]
    /\ UNCHANGED <<now, ctxInput, trackerVars, mlVars, engineVars, detVars,
                   rtVars>>

(***************************************************************************)
(* Initial states and specifications                                       *)
(***************************************************************************)
InitTime == now = StartTime

InitTracker ==
    /\ extensionState = [enabled         |-> TRUE,
                         currentCampaign |-> "",
                         userStats       |-> createDefaultStats,
                         lastSync        |-> 0]
    /\ eventQueue = <<>>
    /\ delivered = 0
    /\ trainingData = <<>>
    /\ samples = <<>>
    /\ lastEvent = NoEvent

InitML ==
    /\ loaded = FALSE
    /\ model = Null
    /\ tfDefined = FALSE
    /\ mlInput = NoMLInput
    /\ mlResult = NoMlResult

InitEngine ==
    /\ lastSimulationTime = 0
    /\ simulationCount = 0
    /\ handlers = [h \in 1..MaxHandlers |-> IdleHandler]
    /\ triggerLog = NoTrigger
    /\ generated = <<>>
    /\ injected = 0
    /\ userContext = [p \in PlatformSet |-> AbsentContext]

InitDetector ==
    /\ detInput = NoDetectionInput
    /\ detResult = NoDetResult
    /\ InitContentScripts
    /\ InitInjector

InitRedTeam == rtResults = <<>> /\ planned = NoPlan

InitContext ==
    /\ ctxInput = <<>>
    /\ ctxResult = NoAnalysis

\* the progression tracker under any sequence of tracker inputs
Init ==
    /\ InitTime /\ InitTracker /\ InitML /\ InitEngine /\ InitDetector
    /\ InitRedTeam /\ InitContext

Next ==
    \/ \E event \in TrackerEvents, netOk \in BOOLEAN :
          handleSimulationEvent(event, netOk)
    \/ \E netOk \in BOOLEAN : handleCredentialEntry(netOk)
    \/ \E netOk \in BOOLEAN : handleSuspiciousSiteReport(netOk)

Spec == Init /\ [][Next]_vars

\* campaign ids the dashboard's configuration may carry
CampaignIds == {"default-campaign"}

\* the progression tracker under its inputs and the periodic sync
NextTracker ==
    \/ \E event \in TrackerEvents, netOk \in BOOLEAN :
          handleSimulationEvent(event, netOk)
    \/ \E netOk \in BOOLEAN : handleCredentialEntry(netOk)
    \/ \E netOk \in BOOLEAN : handleSuspiciousSiteReport(netOk)
    \/ \E netOk \in BOOLEAN, campaignId \in CampaignIds :
          syncWithDashboard(netOk, campaignId)

SpecTracker == Init /\ [][NextTracker]_vars

\* CredentialDetector.analyze applied to one DetectionInput
InitDet ==
    /\ InitTime /\ InitTracker /\ InitML /\ InitEngine /\ InitRedTeam
    /\ InitContext
    /\ detInput \in DetectionInputs
    /\ detResult = NoDetResult
    /\ InitContentScripts
    /\ InitInjector

NextDet == Analyze

SpecDet == InitDet /\ [][NextDet]_vars

\* the content scripts watching one form while the user types, and the worker
\* handling their messages
NextPrivacy ==
    \/ \E field \in {"username", "password"}, chars \in [Runs -> Alphabet] :
          TypeCharacter(field, chars)
    \/ FocusField
    \/ SubmitForm
    \/ WorkerHandle

SpecPrivacy == Init /\ [][NextPrivacy]_vars

\* the injector showing simulations and reporting the user's reactions, and
\* the worker handling its reports
NextInjector ==
    \/ \E id \in SimulationIds, position \in Positions :
          InjectSimulation(id, position)
    \/ \E element \in injector.page : CloseSimulation(element)
    \/ \E element \in injector.page : ClickAction(element)
    \/ \E timer \in injector.timers : TimerFires(timer)
    \/ WorkerHandle

SpecInjector == Init /\ [][NextInjector]_vars

\* MLModel: initialize and predict on one MLInput, in either order
InitMLModel ==
    /\ InitTime /\ InitTracker /\ InitEngine /\ InitDetector /\ InitRedTeam
    /\ InitContext
    /\ loaded = FALSE
    /\ model = Null
    /\ tfDefined \in BOOLEAN
    /\ mlInput \in MLInputs
    /\ mlResult = NoMlResult

NextML ==
    \/ \E outcome \in {"ok", "sequential_throws", "compile_throws"} :
          initialize(outcome)
    \/ \E inferenceThrows \in BOOLEAN, probability \in Probabilities :
          Predict(inferenceThrows, probability)

SpecML == InitMLModel /\ [][NextML]_vars

\* the training buffer filled one event at a time, with TensorFlow present or
\* not and the model loaded at any moment or never
InitTraining ==
    /\ InitTime /\ InitTracker /\ InitEngine /\ InitDetector /\ InitRedTeam
    /\ InitContext
    /\ loaded = FALSE
    /\ model = Null
    /\ tfDefined \in BOOLEAN
    /\ mlInput = NoMLInput
    /\ mlResult = NoMlResult

NextTraining ==
    \/ \E outcome \in {"ok", "sequential_throws", "compile_throws"} :
          initialize(outcome)
    \/ AddTrainingExample(SIMULATION_SHOWN)

SpecTraining == InitTraining /\ [][NextTraining]_vars

\* the service worker's CONTEXT_UPDATE handlers, interleaved at their awaits
NextWorker ==
    \/ \E h \in 1..MaxHandlers, platform \in WorkerPlatforms :
          \E context \in WorkerContexts(platform) :
             ContextUpdateStore(h, platform, context)
    \/ \E h \in 1..MaxHandlers, random \in RandomDraws :
          ContextUpdateDecide(h, random)
    \/ \E h \in 1..MaxHandlers, hasTab \in BOOLEAN :
          ContextUpdateInject(h, hasTab)
    \/ \E enabled \in BOOLEAN : SetExtensionEnabled(enabled)
    \/ \E step \in {ClockStep, MIN_INTERVAL_MS} : Tick(step)

\* the worker after its first successful sync: a campaign is configured
InitWorker ==
    /\ InitTime /\ InitML /\ InitEngine /\ InitDetector /\ InitRedTeam
    /\ InitContext
    /\ extensionState = [enabled         |-> TRUE,
                         currentCampaign |-> "default-campaign",
                         userStats       |-> createDefaultStats,
                         lastSync        |-> StartTime]
    /\ eventQueue = <<>>
    /\ delivered = 0
    /\ trainingData = <<>>
    /\ samples = <<>>
    /\ lastEvent = NoEvent

SpecWorker == InitWorker /\ [][NextWorker]_vars

\* the worker under the messages CONTEXT_UPDATE, TRIGGER_SIMULATION, SYNC_NOW
\* and SET_EXTENSION_ENABLED, its handlers interleaved at their awaits
NextMessages ==
    \/ \E h \in 1..MaxHandlers :
          ContextUpdateStore(h, GITHUB, FullContext(GITHUB))
    \/ \E h \in 1..MaxHandlers : ContextUpdateDecide(h, 10)
    \/ \E h \in 1..MaxHandlers, hasTab \in BOOLEAN :
          ContextUpdateInject(h, hasTab)
    \/ \E hasTab \in BOOLEAN : TriggerSimulation(hasTab)
    \/ \E netOk \in BOOLEAN, campaignId \in CampaignIds :
          syncWithDashboard(netOk, campaignId)
    \/ \E enabled \in BOOLEAN : SetExtensionEnabled(enabled)
    \/ Tick(MIN_INTERVAL_MS)

SpecMessages == InitWorker /\ [][NextMessages]_vars

\* the engine called directly, one call at a time
NextEngine ==
    \/ \E platform \in WorkerPlatforms, random \in RandomDraws :
          \E context \in WorkerContexts(platform) :
             ShouldTrigger(context, random)
    \/ \E platform \in WorkerPlatforms, pick \in PickDraws, delay \in DelayDraws :
          GenerateSimulation(platform, pick, delay)
    \/ \E step \in {ClockStep, MIN_INTERVAL_MS} : Tick(step)

SpecEngine == Init /\ [][NextEngine]_vars

\* red-team scenarios requested while the clock advances and the training
\* engine generates its first simulation
NextRedTeam ==
    \/ \E targetUser \in TargetUsers, attackVector \in AttackVectors,
          customPayload \in Payloads, random \in IdDraws :
          RedTeam(targetUser, attackVector, customPayload, random)
    \/ /\ simulationCount = 0
       /\ ~triggerLog.pending
       /\ ShouldTrigger(FullContext(GITHUB), 10)
    \/ GenerateSimulation(GITHUB, 0, 50)
    \/ Tick(MIN_INTERVAL_MS)

SpecRedTeam == Init /\ [][NextRedTeam]_vars

\* the two generators called directly while the clock advances
NextPlan ==
    \/ \E platform \in PlatformSet, candidates \in CandidateLists,
          difficulty \in Difficulties, pick \in PickDraws, delay \in DelayDraws :
          Generate(platform, candidates, difficulty, pick, delay)
    \/ \E platform \in WorkerPlatforms :
          ~triggerLog.pending /\ ShouldTrigger(FullContext(platform), 10)
    \/ \E platform \in WorkerPlatforms, pick \in PickDraws, delay \in DelayDraws :
          GenerateSimulation(platform, pick, delay)
    \/ Tick(MIN_INTERVAL_MS)

SpecPlan == Init /\ [][NextPlan]_vars

\* ContextAnalyzer.analyze applied to one context map
InitCtx ==
    /\ InitTime /\ InitTracker /\ InitML /\ InitEngine /\ InitDetector
    /\ InitRedTeam
    /\ ctxInput \in ContextMaps
    /\ ctxResult = NoAnalysis

NextCtx == AnalyzeContext

SpecCtx == InitCtx /\ [][NextCtx]_vars

(***************************************************************************)
(* Properties                                                              *)
(***************************************************************************)
HasPasswordField(input) ==
    \E i \in 1..Len(input.formFields) : input.formFields[i].isPassword

\* C1: starting from the default stats, the risk score stays within [0, 100]
\* after every tracker update.
C1_RiskScoreInRange ==
    /\ extensionState.userStats.riskScore >= 0
    /\ extensionState.userStats.riskScore <= 100

\* C2: analyze reports a credential entry only if some form field of the
\* input has isPassword set.
C2_VerdictNeedsPasswordField ==
    (detResult.called /\ detResult.prediction.isCredentialEntry)
        => HasPasswordField(detInput)

\* a credential-entry verdict was returned
C2_Witness ==
    /\ detResult.called
    /\ detResult.prediction.isCredentialEntry

\* C3: analyze reports a credential entry exactly when a password field is
\* present and the returned confidence is strictly greater than 0.75.
C3_VerdictIffAboveDefaultThreshold ==
    detResult.called =>
        (detResult.prediction.isCredentialEntry
            <=> (HasPasswordField(detInput)
                    /\ detResult.prediction.confidence > 75))

\* C4: a prediction of MLModel.predict, from the model or from the heuristic
\* fallback, reports a credential entry only if the input has a password
\* field and the returned confidence exceeds 0.75.
C4_PredictVerdictNeedsPasswordAndConfidence ==
    (mlResult.called /\ mlResult.prediction.isCredentialEntry)
        => (HasPasswordField(mlInput) /\ mlResult.prediction.confidence > 75)

\* C5: predict always returns a prediction, and when the model is not
\* loaded, TensorFlow is unavailable or inference throws, that prediction is
\* the heuristic prediction for the same input.
C5_PredictFallsBackToHeuristic ==
    mlResult.called =>
        /\ mlResult.status = "returned"
        /\ (\/ ~mlResult.loaded
            \/ mlResult.model = Null
            \/ ~tfDefined
            \/ mlResult.threw)
              => mlResult.prediction = heuristicPrediction(mlInput)

\* inference threw inside predict and a prediction came back
C5_Witness ==
    /\ mlResult.called
    /\ mlResult.threw
    /\ mlResult.status = "returned"

\* C6: shouldTriggerSimulation answers no whenever fewer than 300,000 ms
\* have passed since the last simulation or the session count has reached 5,
\* whatever the context and the random draw.
C6_NoTriggerInsideIntervalOrAtCap ==
    (/\ triggerLog.called
     /\ \/ triggerLog.time - triggerLog.last < 300000
        \/ triggerLog.count >= 5)
        => ~triggerLog.result

\* a call made at the cap, outside the minimum interval, answered no
C6_Witness ==
    /\ triggerLog.called
    /\ triggerLog.count >= 5
    /\ triggerLog.time - triggerLog.last >= 300000
    /\ ~triggerLog.result

\* C7: under every interleaving of CONTEXT_UPDATE handlers, no two training
\* simulations are generated less than 300,000 ms apart.
C7_GenerationsSpacedByMinInterval ==
    \A i, j \in 1..Len(generated) :
        i < j => generated[j] - generated[i] >= 300000

\* C8: a red-team scenario's content contains the payload text and the target
\* identity, its difficulty is expert, its red-team flag is set and it has no
\* trigger conditions.
C8_RedTeamScenarioShape ==
    \A i \in 1..Len(rtResults) :
        LET call == rtResults[i]
            sim  == call.simulation
        IN /\ Includes(sim.content.body, call.args[3])
           /\ Includes(sim.content.title, call.args[3])
           /\ Includes(sim.content.body, call.args[1])
           /\ sim.metadata.difficulty = "expert"
           /\ sim.metadata.redTeamControlled = TRUE
           /\ sim.triggerConditions = <<>>

\* a scenario was generated for a non-empty payload
C8_Witness ==
    \E i \in 1..Len(rtResults) :
        /\ rtResults[i].args[3] = "Pay this invoice"
        /\ rtResults[i].args[1] = "alice"

\* a simulation without its generated id and creation timestamp
WithoutIdAndTime(sim) == [sim EXCEPT !.id = <<>>, !.metadata.createdAt = 0]

\* C9: two generateRedTeamScenario calls with identical arguments return
\* simulations equal in every field but id and creation timestamp, whatever
\* the clock, the random source and the cadence counters were at each call,
\* and a call leaves the cadence counters as they were.
C9_RedTeamDeterministic ==
    /\ \A i, j \in 1..Len(rtResults) :
          rtResults[i].args = rtResults[j].args
              => WithoutIdAndTime(rtResults[i].simulation)
                    = WithoutIdAndTime(rtResults[j].simulation)
    /\ \A i \in 1..Len(rtResults) :
          rtResults[i].cadenceAfter = rtResults[i].cadenceBefore

\* two calls with the same arguments, made at different times with different
\* random draws and different cadence counters
C9_Witness ==
    /\ Len(rtResults) = 2
    /\ rtResults[1].args = rtResults[2].args
    /\ rtResults[1].simulation.id[3] # rtResults[2].simulation.id[3]
    /\ rtResults[1].simulation.metadata.createdAt
          # rtResults[2].simulation.metadata.createdAt
    /\ rtResults[1].cadenceBefore # rtResults[2].cadenceBefore

\* every value of the context map is absent (the empty map included)
AllAbsent(userContexts) ==
    \A i \in 1..Len(userContexts) : userContexts[i].platform = Null

\* C10: for an empty context map, or one whose values are all absent, analyze
\* returns risk profile medium, primary platform unknown, no key contacts, no
\* topics, the single suggested vector credential_harvest and score 0.
C10_EmptyMapGivesDefaultAnalysis ==
    (ctxResult.called /\ AllAbsent(ctxInput)) =>
        /\ ctxResult.analysis.riskProfile = "medium"
        /\ ctxResult.analysis.primaryPlatform = "unknown"
        /\ ctxResult.analysis.keyContacts = <<>>
        /\ ctxResult.analysis.topics = <<>>
        /\ ctxResult.analysis.suggestedAttackVectors = <<"credential_harvest">>
        /\ ctxResult.analysis.personalizationScore = 0

\* analyze was applied to the empty map
C10_Witness ==
    /\ ctxResult.called
    /\ ctxInput = <<>>

\* the page text analyze scans has at least one urgency keyword
HasUrgencyKeyword(input) ==
    CountIncluded(ToLowerCase(input.pageTitle \o " " \o input.pageContent),
                  urgencyKeywords) > 0

HasFactor(prediction, type) ==
    \E i \in 1..Len(prediction.riskFactors) : prediction.riskFactors[i].type = type

\* C11: for an input with a password field, an http URL and at least one
\* urgency keyword in the page text, analyze returns a confidence above 0.6
\* and a factor list holding both insecure_protocol and password_field.
C11_InsecureUrgentPasswordPage ==
    (/\ detResult.called
     /\ HasPasswordField(detInput)
     /\ ParseUrl(detInput.url).valid
     /\ ParseUrl(detInput.url).protocol = "http:"
     /\ HasUrgencyKeyword(detInput))
        => /\ detResult.prediction.confidence > 60
           /\ HasFactor(detResult.prediction, "insecure_protocol")
           /\ HasFactor(detResult.prediction, "password_field")

\* C12: averageDetectionTime is the arithmetic mean of the elapsed times
\* carried by the simulation-detected events handled so far (0 before the
\* first one), so inputs that carry no measurement do not move it.
C12_AverageIsMeanOfSamples ==
    extensionState.userStats.averageDetectionTime =
        IF samples = <<>> THEN Frac(0, 1) ELSE Frac(Sum(samples), Len(samples))

\* the risk-score delta the tracker's contract gives each event kind
RiskDelta(type) ==
    CASE type = LINK_CLICKED -> 25
      [] type = CREDENTIAL_ENTERED -> 50
      [] type = SIMULATION_DETECTED -> -20
      [] type = REPORTED_PHISHING -> -30
      [] OTHER -> 0

Bump(cond) == IF cond THEN 1 ELSE 0

\* C13: handling one simulation event increments only the counter of the
\* event's kind (shown: seen, clicked: clicked, credential entered:
\* credentialsEntered, detected and reported: detected), leaves the other
\* counters alone and moves the risk score by the kind's delta, clamped.
C13_OnlyOwnCounterMoves ==
    (lastEvent.handler = "handleSimulationEvent" /\ lastEvent.type \in EventType)
        => LET before == lastEvent.before
               after  == extensionState.userStats
               type   == lastEvent.type
           IN /\ after.simulationsSeen =
                    before.simulationsSeen + Bump(type = SIMULATION_SHOWN)
              /\ after.simulationsClicked =
                    before.simulationsClicked + Bump(type = LINK_CLICKED)
              /\ after.credentialsEntered =
                    before.credentialsEntered + Bump(type = CREDENTIAL_ENTERED)
              /\ after.simulationsDetected =
                    before.simulationsDetected
                       + Bump(type \in {SIMULATION_DETECTED, REPORTED_PHISHING})
              /\ after.riskScore =
                    Max(0, Min(100, before.riskScore + RiskDelta(type)))

\* the counters and the risk score of a stats record
CountersAndRisk(stats) ==
    <<stats.simulationsSeen, stats.simulationsClicked, stats.credentialsEntered,
      stats.simulationsDetected, stats.riskScore>>

\* the stats after handling event first and then event second
ApplyBoth(stats, first, second) ==
    SimulationEventStats(SimulationEventStats(stats, first, now), second, now)

\* one event of every kind; the elapsed time an event carries enters only
\* averageDetectionTime, which is not among the counters and the risk score
EventKinds == {e \in TrackerEvents : e.metadata.shownAt = 10000}

\* what an event takes off the risk score
Decrease(event) == Max(0, 0 - RiskDelta(event.type))

C15_PlanNeverThrows ==
    planned.called =>
        /\ \A t \in PhishingType : getTemplates(planned.platform, t) # <<>>
        /\ ~planned.threw
        /\ planned.type \in PhishingType
        /\ planned.title # ""

\* the trigger conditions of one kind in a simulation
ConditionsOf(simulation, kind) ==
    {i \in 1..Len(simulation.triggerConditions) :
        simulation.triggerConditions[i].type = kind}

\* C20: every simulation of the randomized plan path carries exactly one
\* temporal trigger condition, set between 5 s and 30 s after the creation
\* time, and exactly one activation-event condition.
C20_TriggerDelayWithinBounds ==
    (planned.called /\ ~planned.threw) =>
        /\ Cardinality(ConditionsOf(planned, "time")) = 1
        /\ Cardinality(ConditionsOf(planned, "action")) = 1
        /\ \A i \in ConditionsOf(planned, "time") :
              /\ planned.triggerConditions[i].value >= planned.createdAt + 5000
              /\ planned.triggerConditions[i].value <= planned.createdAt + 30000

\* high > medium > low
SeverityRank(severity) ==
    CASE severity = "high" -> 3 [] severity = "medium" -> 2 [] OTHER -> 1

\* the position of a factor in the order analyze found the factors
FoundAt(found, factor) == CHOOSE i \in 1..Len(found) : found[i] = factor

Elements(seq) == {seq[i] : i \in 1..Len(seq)}

\* C16: the factor list analyze returns has at most 5 entries, all of them
\* found factors, and they are the highest-ranked ones by severity (high,
\* medium, low) and then discovery order: every omitted factor has a lower
\* severity than each returned one, or the same severity and a later discovery.
C16_TopFiveBySeverity ==
    detResult.called =>
        LET found    == AnalyzeFindings(detInput).factors
            returned == detResult.prediction.riskFactors
            omitted  == Elements(found) \ Elements(returned)
        IN /\ Len(returned) = Min(5, Len(found))
           /\ Elements(returned) \subseteq Elements(found)
           /\ Cardinality(Elements(returned)) = Len(returned)
           /\ \A o \in omitted, r \in Elements(returned) :
                 \/ SeverityRank(o.severity) < SeverityRank(r.severity)
                 \/ /\ SeverityRank(o.severity) = SeverityRank(r.severity)
                    /\ FoundAt(found, o) > FoundAt(found, r)

\* analyze found more than five factors, a high-severity one in fifth place
C16_Witness ==
    /\ detResult.called
    /\ Len(AnalyzeFindings(detInput).factors) > 5
    /\ Len(detResult.prediction.riskFactors) = 5
    /\ detResult.prediction.riskFactors[5].type = "ip_address"

\* C17: the analysis of every context map, maps holding only 'unknown'
\* contexts included, has a non-empty suggestedAttackVectors list without
\* duplicates.
C17_AttackVectorsNonEmptyDistinct ==
    ctxResult.called =>
        LET vectors == ctxResult.analysis.suggestedAttackVectors
        IN /\ vectors # <<>>
           /\ Cardinality(Elements(vectors)) = Len(vectors)

\* every connection name of the present contexts, in insertion order
ConnectionNames(contexts) ==
    Flatten([i \in 1..Len(contexts) |->
                [j \in 1..Len(contexts[i].connections) |->
                    contexts[i].connections[j].name]])

\* C18: keyContacts is the first 5 distinct connection names met across all
\* contexts in insertion order, so it has at most 5 names and no duplicate.
C18_KeyContactsFirstFiveDistinct ==
    ctxResult.called =>
        LET keyContacts == ctxResult.analysis.keyContacts
        IN /\ Len(keyContacts) <= 5
           /\ Cardinality(Elements(keyContacts)) = Len(keyContacts)
           /\ keyContacts =
                 FirstN(Distinct(ConnectionNames(PresentContexts(ctxInput))), 5)

\* C19: two runs that differ only in the characters typed into the username
\* and password fields (same emptiness, same length) send identical messages
\* to the worker and post identical events to the dashboard, so no outgoing
\* message carries the typed text.
C19_MessagesIndependentOfTypedText ==
    /\ outbox[1] = outbox[2]
    /\ dashboard.events[1] = dashboard.events[2]

\* both runs typed different credentials, the injector and the detector
\* reported them and the worker posted an event for it
C19_Witness ==
    /\ typed[1].username # typed[2].username
    /\ typed[1].password # typed[2].password
    /\ \E i \in 1..Len(outbox[1]) : outbox[1][i].type = "SIMULATION_EVENT"
    /\ \E i \in 1..Len(outbox[1]) : outbox[1][i].type = "CREDENTIAL_ENTRY_DETECTED"
    /\ dashboard.events[1] # <<>>

\* the four counters of UserStats
Counters ==
    {"simulationsSeen", "simulationsClicked", "credentialsEntered",
     "simulationsDetected"}

\* C21: no step of the tracker (simulation event, credential entry, site
\* report, sync) lowers any of the four UserStats counters.
C21_CountersNeverDecrease ==
    [][\A counter \in Counters :
          extensionState'.userStats[counter]
             >= extensionState.userStats[counter]]_vars

\* every counter has moved, every handler kind having run
C21_Witness ==
    /\ \A counter \in Counters : extensionState.userStats[counter] > 0
    /\ extensionState.userStats.simulationsDetected
          > extensionState.userStats.simulationsSeen
    /\ extensionState.lastSync # 0

\* the injector's names of the interaction kinds
InjectorKinds ==
    {"SIMULATION_SHOWN", "LINK_CLICKED", "CREDENTIAL_ENTERED",
     "SIMULATION_DETECTED"}

\* C22: an interaction event the injector reported, once the worker's
\* handleSimulationEvent has handled it, has had the effect of its kind:
\* detected -> simulationsDetected + 1 and risk - 20 (not below 0),
\* clicked -> simulationsClicked + 1 and risk + 25,
\* credential entered -> credentialsEntered + 1 and risk + 50.
C22_InjectorEventsRecognised ==
    (lastEvent.handler = "handleSimulationEvent"
       /\ lastEvent.type \in InjectorKinds)
    => LET before == lastEvent.before
           after  == extensionState.userStats
       IN /\ lastEvent.type = "SIMULATION_DETECTED"
               => /\ after.simulationsDetected = before.simulationsDetected + 1
                  /\ after.riskScore = Max(0, before.riskScore - 20)
          /\ lastEvent.type = "LINK_CLICKED"
               => /\ after.simulationsClicked = before.simulationsClicked + 1
                  /\ after.riskScore = before.riskScore + 25
          /\ lastEvent.type = "CREDENTIAL_ENTERED"
               => /\ after.credentialsEntered = before.credentialsEntered + 1
                  /\ after.riskScore = before.riskScore + 50

\* C23: when the request delivering the event of the tracker input handled
\* last failed, sendEvent returned false and the event is the newest entry of
\* the retry queue.
C23_FailedDeliveryIsQueued ==
    (lastEvent.handler # "none" /\ ~lastEvent.netOk)
    => /\ ~lastEvent.sendReturned
       /\ eventQueue # <<>>
       /\ eventQueue[Len(eventQueue)] = lastEvent.type

\* C24: the last injectSimulation call, if its id was already active,
\* returned false, added no element and reported no SIMULATION_SHOWN; and it
\* returned true or reported SIMULATION_SHOWN only if it added an element for
\* that id to the active set.
C24_InjectOncePerActiveId ==
    injector.last.called
    => /\ injector.last.wasActive
             => /\ ~injector.last.returned
                /\ ~injector.last.added
                /\ ~injector.last.shown
       /\ (injector.last.returned \/ injector.last.shown)
             => injector.last.added

getDetectionRate(stats) ==
    IF stats.simulationsSeen = 0
    THEN 0
    ELSE (200 * stats.simulationsDetected + stats.simulationsSeen)
            \div (2 * stats.simulationsSeen)

\* C26: in every state the handlers reach, simulationsDetected is at most
\* simulationsSeen and the detection rate shown is at most 100.
C26_DetectedAtMostSeen ==
    /\ extensionState.userStats.simulationsDetected
          <= extensionState.userStats.simulationsSeen
    /\ getDetectionRate(extensionState.userStats) <= 100

\* C27: no step taken while extensionState.enabled is false sends an
\* INJECT_SIMULATION message to a tab.
C27_NoInjectionWhileDisabled ==
    [][~extensionState.enabled => injected' = injected]_vars

\* the CREDENTIAL_ENTERED reports among the messages of one run
CredentialReports(r) ==
    {i \in 1..Len(outbox[r]) :
        /\ outbox[r][i].type = "SIMULATION_EVENT"
        /\ outbox[r][i].event.type = "CREDENTIAL_ENTERED"}

\* C28: however many input events the form of one injected simulation
\* receives once both fields are filled, the injector reports at most one
\* CREDENTIAL_ENTERED event (the reason the claim gives for at most one
\* credential entry and 50 risk points per simulation).
C28_OneCredentialReportPerSimulation ==
    \A r \in Runs : Cardinality(CredentialReports(r)) <= 1

\* C29: the training buffer never holds more than 100 events, whether or not
\* a TensorFlow model is loaded.
C29_TrainingBufferAtMostHundred == Len(trainingData) <= 100

\* C30: when every generateSimulation call follows a shouldTriggerSimulation
\* call that returned true, the session's simulation count never exceeds 5,
\* lastSimulationTime never decreases, and a shouldTriggerSimulation call
\* changes neither of the two fields.
C30_SessionCountCappedTimeMonotone ==
    /\ [](simulationCount <= 5)
    /\ [][lastSimulationTime' >= lastSimulationTime]_vars
    /\ [][(triggerLog'.called
             /\ triggerLog'.time = now
             /\ triggerLog'.pending = triggerLog'.result
             /\ triggerLog' # triggerLog
             /\ generated' = generated)
          => /\ lastSimulationTime' = lastSimulationTime
             /\ simulationCount' = simulationCount
             /\ triggerLog'.last = lastSimulationTime
             /\ triggerLog'.count = simulationCount]_vars

\* five simulations were generated in the session, the last one after the
\* session's start, and a later call was refused
C30_Witness ==
    /\ simulationCount = 5
    /\ Len(generated) = 5
    /\ lastSimulationTime > StartTime
    /\ triggerLog.called
    /\ triggerLog.time > lastSimulationTime
    /\ ~triggerLog.result

====
